---- MODULE Spec2Model ----
(***************************************************************************)
(* Credential and token lifecycle of the minwada backend: refresh-token    *)
(* rotation and revocation, password-reset tokens, email-verification      *)
(* tokens.  Every handler is split at its database statements, so that     *)
(* concurrent requests interleave exactly where the code awaits the store. *)
(* The store is PostgreSQL at READ COMMITTED: writes made inside a         *)
(* transaction become visible at commit, a row updated inside a            *)
(* transaction stays locked until that transaction ends.                   *)
(***************************************************************************)
EXTENDS FiniteSets, Integers, Sequences, TLC

\* ---------------------------------------------------------------- bounds
NumProcs == 2
MaxRequests == 3
MaxTicks == 1

\* ------------------------------------------------------ program constants
RefreshTokenDays == 7
ResetTokenHours == 1
VerificationTokenHours == 24
MinPasswordLen == 8
AccessTokenMinutes == 15
ExpiresInSeconds == 900

RefreshTTL == RefreshTokenDays * 24

Procs == 1..NumProcs
Users == {"u1", "u2"}
NoUser == "nobody"
NoEmail == "none"
\* SQL NULL in a token column and in a timestamp column; neither equals a
\* presented token nor lies after any clock value
NullToken == 0
NullTime == -1
NoHash == <<>>
\* a string no token generator returns
BogusToken == -1

SeedName == [u \in Users |-> IF u = "u1" THEN "testuser_a" ELSE "testuser_b"]
SeedEmail == [u \in Users |-> IF u = "u1" THEN "a@example.com" ELSE "b@example.com"]
Emails == {SeedEmail[u] : u \in Users}
Passwords == {"password123", "newpassword456"}
NewPasswords == Passwords \cup {"short"}
NewEmails == Emails \cup {"new@example.com"}
Salts == {1, 2}

VARIABLES
    now,              \* the store's clock (NOW() / Utc::now()), in hours
    ticks,            \* how often the clock has advanced
    started,          \* how many requests have been accepted
    users,            \* table users: a function from the ids of its rows
    user_credentials, \* table user_credentials: a function from user_id
    refresh_tokens,   \* table refresh_tokens: set of rows
    nextToken,        \* the next value the random token generators return
    nextRowId,        \* the next refresh_tokens.id the store assigns
    outbox,           \* emails handed to the email sender, with their recipient
    pc,               \* per request slot: the statement it is about to run
    req,              \* per request slot: the request payload
    loc,              \* per request slot: the handler's local variables
    last,             \* the request that returned last, with its response
    redeemed,         \* raw refresh tokens whose refresh has returned success
    loggedOut,        \* raw refresh tokens whose logout has returned
    resetDone,        \* reset tokens whose reset_password has returned success
    verifyDone,       \* verification tokens whose verify_email has returned success
    issued,           \* raw refresh tokens returned to a client in a response
    access_tokens,    \* claims of the access tokens returned to a client
    threads,          \* table threads: set of rows
    comments          \* table comments: set of rows

store == <<users, user_credentials, refresh_tokens>>
procs == <<pc, req, loc>>
posts == <<threads, comments>>
hist  == <<redeemed, loggedOut, resetDone, verifyDone, issued, access_tokens>>
vars  == <<now, ticks, started, users, user_credentials, refresh_tokens, nextToken,
           nextRowId, outbox, pc, req, loc, last, redeemed, loggedOut,
           resetDone, verifyDone, issued, access_tokens, threads, comments>>

\* ----------------------------------------------------------- pure helpers

\* SHA-256 + base64 of the raw token: deterministic and collision free
hash_refresh_token(token) == <<"sha256", token>>

verify_refresh_token(token, hash) == hash_refresh_token(token) = hash

\* argon2 with a per-call random salt; the hash string carries the salt
hash_password(password, salt) ==
    [password_hash |-> <<"argon2", salt, password>>, salt |-> salt]

\* SaltString::generate(&mut OsRng): a salt that differs from the stored one
FreshSalt(stored) == CHOOSE s \in Salts : s # stored

verify_password(password, password_hash) ==
    password_hash = <<"argon2", password_hash[2], password>>

\* raw tokens a client can present: those it received in a response or in an
\* email, and one string no generator ever returns
Presentable == issued \cup {m.token : m \in outbox} \cup {BogusToken}

\* the claims of no token
NoClaims == [sub |-> NoUser, exp |-> 0]

\* create_jwt_token(id, username, email, secret, 15): the claims the signed
\* token carries; exp is in minutes, the clock in hours
create_jwt_token(u, minutes) == [sub |-> u, exp |-> now * 60 + minutes]

\* an access token as its bearer presents it: the claims it carries and
\* whether its signature is the server's ("signed"), another ("forged"), or
\* the string is no token at all ("malformed")
Malformed == [claims |-> NoClaims, signature |-> "malformed"]

\* a request without an Authorization header
NoHeader == [scheme |-> "none", token |-> Malformed]

NoReq == [op |-> "none", token |-> BogusToken, uid |-> NoUser, new_password |-> "",
          email |-> NoEmail, username |-> NoUser, password |-> "",
          header |-> NoHeader]

\* no row of table users
NoRow == [username |-> NoUser, email |-> NoEmail, email_verified |-> FALSE,
          email_verified_at |-> NullTime,
          verification_token |-> NullToken, verification_token_expires_at |-> NullTime,
          password_reset_token |-> NullToken,
          password_reset_token_expires_at |-> NullTime]

NoLoc == [uid |-> NoUser, row |-> 0, token |-> BogusToken, hash |-> NoHash,
          access |-> NoClaims, user |-> NoRow]
\* the part of an AuthResponse besides the refresh token
NoBody == [access_token |-> NoClaims, token_type |-> "",
           expires_in |-> 0, email_verified |-> FALSE]
NoReply == [op |-> "none", token |-> BogusToken, uid |-> NoUser, kind |-> "none",
            out |-> BogusToken, repeat |-> FALSE, new_password |-> "", body |-> NoBody,
            message |-> "", email |-> NoEmail, password |-> "",
            header |-> NoHeader]

\* an idle slot accepts a request
Accept(p) ==
    /\ pc[p] = "idle"
    /\ started < MaxRequests
    /\ started' = started + 1

\* the response of a request: its kind (OK or the AppError variant), the
\* token it carries, and whether the presented token had been consumed before
Reply(op, token, uid, kind, out, repeat) ==
    last' = [op |-> op, token |-> token, uid |-> uid, kind |-> kind, out |-> out,
             repeat |-> repeat, new_password |-> "", body |-> NoBody,
             message |-> "", email |-> NoEmail, password |-> "",
             header |-> NoHeader]

\* IntoResponse for AppError: the HTTP status of each kind of response
StatusCode(kind) ==
    CASE kind = "OK" -> 200
      [] kind = "Created" -> 201
      [] kind \in {"Validation", "BadRequest"} -> 400
      [] kind \in {"Unauthorized", "Jwt"} -> 401
      [] kind \in {"Forbidden", "EmailVerificationRequired"} -> 403
      [] kind = "NotFound" -> 404
      [] kind = "Conflict" -> 409
      [] OTHER -> 500

\* the response of a request that carries a new password
ReplyPassword(op, token, uid, kind, repeat, new_password) ==
    last' = [op |-> op, token |-> token, uid |-> uid, kind |-> kind,
             out |-> BogusToken, repeat |-> repeat, new_password |-> new_password,
             body |-> NoBody, message |-> "", email |-> NoEmail, password |-> "",
             header |-> NoHeader]

\* the response of change_password, with the two passwords it was given
ReplyChange(uid, kind, current_password, new_password) ==
    last' = [op |-> "change_password", token |-> BogusToken, uid |-> uid, kind |-> kind,
             out |-> BogusToken, repeat |-> FALSE, new_password |-> new_password,
             body |-> NoBody, message |-> "", email |-> NoEmail,
             password |-> current_password, header |-> NoHeader]

\* the response of a request that returns an AuthResponse
ReplyBody(op, uid, kind, out, body) ==
    last' = [op |-> op, token |-> BogusToken, uid |-> uid, kind |-> kind, out |-> out,
             repeat |-> FALSE, new_password |-> "", body |-> body,
             message |-> "", email |-> NoEmail, password |-> "",
             header |-> NoHeader]

\* the email validator of the request DTOs
ValidEmail(email) == email # "not-an-email"

ValidationError == [kind |-> "Validation", message |-> "Validation errors"]
DatabaseError == [kind |-> "Database", message |-> "Database error occurred"]
InternalError == [kind |-> "Internal", message |-> "Internal server error"]

\* the body of both success branches of request_password_reset
ResetMailSent == [kind |-> "OK", message |-> "reset mail sent"]

\* the response of a request that named an email address: its kind (OK or the
\* AppError variant) and its message
ReplyMessage(op, uid, error, email) ==
    last' = [op |-> op, token |-> BogusToken, uid |-> uid, kind |-> error.kind,
             out |-> BogusToken, repeat |-> FALSE, new_password |-> "", body |-> NoBody,
             message |-> error.message, email |-> email, password |-> "",
             header |-> NoHeader]

\* the handler of slot p returns: the slot is idle again
Return(p) ==
    /\ pc' = [pc EXCEPT ![p] = "idle"]
    /\ req' = [req EXCEPT ![p] = NoReq]
    /\ loc' = [loc EXCEPT ![p] = NoLoc]

\* ------------------------------------------------------------------- Init

SeedUserRow(u) ==
    [username |-> SeedName[u], email |-> SeedEmail[u], email_verified |-> FALSE, email_verified_at |-> NullTime,
     verification_token |-> NullToken, verification_token_expires_at |-> NullTime,
     password_reset_token |-> NullToken, password_reset_token_expires_at |-> NullTime]

Init ==
    /\ now = 0
    /\ ticks = 0
    /\ started = 0
    /\ users = [u \in Users |-> SeedUserRow(u)]
    /\ user_credentials = [u \in Users |-> hash_password("password123", 1)]
    /\ refresh_tokens = {}
    /\ nextToken = 1
    /\ nextRowId = 1
    /\ outbox = {}
    /\ pc = [p \in Procs |-> "idle"]
    /\ req = [p \in Procs |-> NoReq]
    /\ loc = [p \in Procs |-> NoLoc]
    /\ last = NoReply
    /\ redeemed = {}
    /\ loggedOut = {}
    /\ resetDone = {}
    /\ verifyDone = {}
    /\ issued = {}
    /\ access_tokens = {}
    /\ threads = {}
    /\ comments = {}

\* ------------------------------------------------------ refresh_tokens table

NewRefreshRow(id, uid, token_hash, t) ==
    [id |-> id, user_id |-> uid, token_hash |-> token_hash,
     expires_at |-> t + RefreshTTL, revoked |-> FALSE]

\* the lookup without its revoked = false condition
FindRefreshToken_IgnoreRevoked(rows, token_hash, t) ==
    {r \in rows : r.token_hash = token_hash /\ r.expires_at > t}

\* the lookup without its expires_at > NOW() condition
FindRefreshToken_IgnoreExpiry(rows, token_hash, t) ==
    {r \in rows : r.token_hash = token_hash /\ ~r.revoked}

\* SELECT * FROM refresh_tokens
\*  WHERE token_hash = $1 AND revoked = false AND expires_at > NOW()
FindRefreshToken(rows, token_hash, t) ==
    {r \in rows : r.token_hash = token_hash /\ ~r.revoked /\ r.expires_at > t}

\* the SELECT of the refresh_token variant in handlers/auth.rs: SELECT * FROM
\* refresh_tokens WHERE token_hash = $1 AND revoked = false, its expires_at
\* condition commented out
LegacyFindRefreshToken(rows, token_hash, t) ==
    {r \in rows : r.token_hash = token_hash /\ ~r.revoked}

\* refresh_tokens.user_id references users.id
refresh_tokens_user_id_fkey(rows, u) == u \in DOMAIN rows

\* the row removed instead of marked
RevokeById_Delete(rows, id) == {r \in rows : r.id # id}

\* UPDATE refresh_tokens SET revoked = true WHERE id = $1
RevokeById(rows, id) ==
    {IF r.id = id THEN [r EXCEPT !.revoked = TRUE] ELSE r : r \in rows}

\* the update with its condition on the wrong column: no row matches
RevokeByHash_WrongColumn(rows, token_hash) ==
    {IF r.id = 0 THEN [r EXCEPT !.revoked = TRUE] ELSE r : r \in rows}

\* the update flipping the flag instead of setting it
RevokeByHash_Toggle(rows, token_hash) ==
    {IF r.token_hash = token_hash THEN [r EXCEPT !.revoked = ~r.revoked] ELSE r : r \in rows}

\* UPDATE refresh_tokens SET revoked = true WHERE token_hash = $1
RevokeByHash(rows, token_hash) ==
    {IF r.token_hash = token_hash THEN [r EXCEPT !.revoked = TRUE] ELSE r : r \in rows}

\* the commit losing the INSERT
RefreshCommitRows_RevokeOnly(rows, id, uid, token_hash, t, newId) ==
    RevokeById(rows, id)

\* the rows a refresh transaction makes visible when it commits
RefreshCommitRows(rows, id, uid, token_hash, t, newId) ==
    RevokeById(rows, id) \cup {NewRefreshRow(newId, uid, token_hash, t)}

\* a transaction that has run its UPDATE on a row holds the row's lock until
\* it commits or rolls back
HoldsTokenLock(q, id) ==
    /\ pc[q] \in {"rt_insert", "rt_commit"}
    /\ loc[q].row = id

TokenRowFree(p, id) == \A q \in Procs \ {p} : ~HoldsTokenLock(q, id)

\* ------------------------------------------------------------------ refresh

\* refresh_token: hash the presented token and SELECT the matching row
RefreshFind(p, token) ==
    /\ Accept(p)
    /\ LET found == FindRefreshToken(refresh_tokens, hash_refresh_token(token), now)
       IN IF found = {}
          THEN /\ Reply("refresh", token, NoUser, "Unauthorized", BogusToken,
                        token \in redeemed)
               /\ UNCHANGED procs
          ELSE /\ \E r \in found :
                    loc' = [loc EXCEPT ![p] = [NoLoc EXCEPT !.row = r.id, !.uid = r.user_id]]
               /\ req' = [req EXCEPT ![p] = [NoReq EXCEPT !.op = "refresh", !.token = token]]
               /\ pc' = [pc EXCEPT ![p] = "rt_user"]
               /\ last' = last
    /\ UNCHANGED <<now, posts, ticks, store, nextToken, nextRowId, outbox, hist>>

\* SELECT * FROM users WHERE id = $1 (fetch_one), then the new access token
\* and the new raw refresh token are generated
RefreshGetUser(p) ==
    /\ pc[p] = "rt_user"
    /\ IF loc[p].uid \notin DOMAIN users
       THEN /\ Return(p)
            /\ Reply("refresh", req[p].token, loc[p].uid, "Database", BogusToken, FALSE)
            /\ UNCHANGED nextToken
       ELSE /\ loc' = [loc EXCEPT ![p].token = nextToken,
                               ![p].access = create_jwt_token(loc[p].uid,
                                                              AccessTokenMinutes)]
            /\ nextToken' = nextToken + 1
            /\ pc' = [pc EXCEPT ![p] = "rt_revoke"]
            /\ UNCHANGED <<req, last>>
    /\ UNCHANGED <<now, posts, ticks, started, store, nextRowId, outbox, hist>>

\* pool.begin(); UPDATE refresh_tokens SET revoked = true WHERE id = $1
RefreshRevoke(p) ==
    /\ pc[p] = "rt_revoke"
    /\ TokenRowFree(p, loc[p].row)
    /\ pc' = [pc EXCEPT ![p] = "rt_insert"]
    /\ UNCHANGED <<now, posts, ticks, started, store, nextToken, nextRowId, outbox, req, loc,
                   last, hist>>

\* INSERT INTO refresh_tokens (user_id, token_hash, expires_at)
RefreshInsert(p) ==
    /\ pc[p] = "rt_insert"
    /\ refresh_tokens_user_id_fkey(users, loc[p].uid)
    /\ loc' = [loc EXCEPT ![p].hash = hash_refresh_token(loc[p].token)]
    /\ pc' = [pc EXCEPT ![p] = "rt_commit"]
    /\ UNCHANGED <<now, posts, ticks, started, store, nextToken, nextRowId, outbox, req,
                   last, hist>>

\* tx.commit(): both writes become visible, the response carries the new token
RefreshCommit(p) ==
    /\ pc[p] = "rt_commit"
    /\ refresh_tokens' = RefreshCommitRows(refresh_tokens, loc[p].row, loc[p].uid,
                                           loc[p].hash, now, nextRowId)
    /\ nextRowId' = nextRowId + 1
    /\ Return(p)
    /\ Reply("refresh", req[p].token, loc[p].uid, "OK", loc[p].token,
             req[p].token \in redeemed)
    /\ redeemed' = redeemed \cup {req[p].token}
    /\ issued' = issued \cup {loc[p].token}
    /\ access_tokens' = access_tokens \cup {loc[p].access}
    /\ UNCHANGED <<now, posts, ticks, started, users, user_credentials, nextToken, outbox,
                   loggedOut, resetDone, verifyDone>>

\* a statement of the transaction fails (`?`): the transaction is dropped and
\* rolled back, the request ends with a database error
RefreshAbort(p) ==
    /\ pc[p] \in {"rt_insert", "rt_commit"}
    /\ Return(p)
    /\ Reply("refresh", req[p].token, loc[p].uid, "Database", BogusToken, FALSE)
    /\ UNCHANGED <<now, posts, ticks, started, store, nextToken, nextRowId, outbox, hist>>

\* ------------------------------------------------------------------- logout

\* logout: one autocommit UPDATE by token hash; it waits for a transaction
\* that holds the lock of a matching row
Logout(p, token) ==
    /\ Accept(p)
    /\ \A r \in refresh_tokens :
          r.token_hash = hash_refresh_token(token) => TokenRowFree(p, r.id)
    /\ refresh_tokens' = RevokeByHash(refresh_tokens, hash_refresh_token(token))
    /\ Reply("logout", token, NoUser, "OK", BogusToken, token \in loggedOut)
    /\ loggedOut' = loggedOut \cup {token}
    /\ UNCHANGED <<now, posts, ticks, users, user_credentials, nextToken, nextRowId, outbox,
                   procs, redeemed, resetDone, verifyDone, issued, access_tokens>>

\* -------------------------------------------------------------------- login

ValidLogin(email, password) == email \in Emails /\ Len(password) >= 1

\* login: validate, SELECT the user by email, SELECT the credential row,
\* verify_password, generate the tokens, INSERT the refresh-token row
Login(p, email, password) ==
    /\ Accept(p)
    /\ LET found == {u \in DOMAIN users : users[u].email = email}
       IN IF ~ValidLogin(email, password)
          THEN /\ Reply("login", BogusToken, NoUser, "Validation", BogusToken, FALSE)
               /\ UNCHANGED <<refresh_tokens, nextToken, nextRowId, issued, access_tokens>>
          ELSE IF \/ found = {}
                  \/ \A u \in found :
                        \/ u \notin DOMAIN user_credentials
                        \/ ~verify_password(password, user_credentials[u].password_hash)
          THEN /\ Reply("login", BogusToken, NoUser, "Unauthorized", BogusToken, FALSE)
               /\ UNCHANGED <<refresh_tokens, nextToken, nextRowId, issued, access_tokens>>
          ELSE /\ \E u \in found :
                    /\ refresh_tokens' = refresh_tokens \cup
                          {NewRefreshRow(nextRowId, u, hash_refresh_token(nextToken), now)}
                    /\ Reply("login", BogusToken, u, "OK", nextToken, FALSE)
                    /\ access_tokens' = access_tokens \cup
                          {create_jwt_token(u, AccessTokenMinutes)}
               /\ nextToken' = nextToken + 1
               /\ nextRowId' = nextRowId + 1
               /\ issued' = issued \cup {nextToken}
    /\ UNCHANGED <<now, posts, ticks, users, user_credentials, outbox, procs,
                   redeemed, loggedOut, resetDone, verifyDone>>

\* ---------------------------------------------------------- change_password

ValidNewPassword(password) == Len(password) >= MinPasswordLen /\ Len(password) <= 100

\* every refresh token of the user revoked with the password
SessionsAfterPasswordChange_RevokeAll(rows, u) ==
    {IF r.user_id = u THEN [r EXCEPT !.revoked = TRUE] ELSE r : r \in rows}

\* the refresh_tokens rows after change_password or reset_password has written
\* the new credential: neither handler has a statement on refresh_tokens
SessionsAfterPasswordChange(rows, u) == rows

\* the credential write lost
UpdateCredential_Lost(creds, u, hash) == creds

\* UPDATE user_credentials SET password_hash = $1, salt = $2 WHERE user_id = $3
UpdateCredential(creds, u, hash) ==
    IF u \in DOMAIN creds THEN [creds EXCEPT ![u] = hash] ELSE creds

\* a wrong current password answered with Unauthorized
ChangePasswordOutcome_Unauthorized(creds, u, current_password, new_password) ==
    IF ~(Len(current_password) >= 1 /\ ValidNewPassword(new_password))
    THEN "Validation"
    ELSE IF u \notin DOMAIN creds THEN "Database"
    ELSE IF ~verify_password(current_password, creds[u].password_hash)
    THEN "Unauthorized"
    ELSE "OK"

\* the credential row read and the current password verified before the
\* request body is validated
ChangePasswordOutcome_VerifyFirst(creds, u, current_password, new_password) ==
    IF u \notin DOMAIN creds THEN "Database"
    ELSE IF ~verify_password(current_password, creds[u].password_hash)
    THEN "Forbidden"
    ELSE IF ~(Len(current_password) >= 1 /\ ValidNewPassword(new_password))
    THEN "Validation"
    ELSE "OK"

\* the outcome of change_password: validate, SELECT the credential row
\* (fetch_one), verify the current password
ChangePasswordOutcome(creds, u, current_password, new_password) ==
    IF ~(Len(current_password) >= 1 /\ ValidNewPassword(new_password))
    THEN "Validation"
    ELSE IF u \notin DOMAIN creds THEN "Database"
    ELSE IF ~verify_password(current_password, creds[u].password_hash)
    THEN "Forbidden"
    ELSE "OK"

\* the credential row change_password writes: the hash of the new password
\* under a fresh salt
ChangedCredential_OldPassword(creds, u, current_password, new_password) ==
    hash_password(current_password, FreshSalt(creds[u].salt))

ChangedCredential(creds, u, current_password, new_password) ==
    hash_password(new_password, FreshSalt(creds[u].salt))

\* change_password for the authenticated user u: validate, SELECT the
\* credential row (fetch_one), verify the current password, hash the new one,
\* UPDATE the credential row
ChangePassword(p, u, current_password, new_password) ==
    /\ Accept(p)
    /\ u \in DOMAIN users
    /\ LET creds == user_credentials
           kind == ChangePasswordOutcome(creds, u, current_password, new_password)
       IN /\ ReplyChange(u, kind, current_password, new_password)
          /\ user_credentials' =
                IF kind = "OK"
                THEN UpdateCredential(creds, u,
                        ChangedCredential(creds, u, current_password, new_password))
                ELSE creds
          /\ refresh_tokens' =
                IF kind = "OK"
                THEN SessionsAfterPasswordChange(refresh_tokens, u)
                ELSE refresh_tokens
    /\ UNCHANGED <<now, posts, ticks, users, nextToken, nextRowId, outbox, procs, hist>>

\* ------------------------------------------------------------- environment

\* the clock advances by d hours
Tick(d) ==
    /\ ticks < MaxTicks
    /\ now' = now + d
    /\ ticks' = ticks + 1
    /\ UNCHANGED <<started, posts, store, nextToken, nextRowId, outbox, procs, last,
                   hist>>

\* ------------------------------------------- specification: refresh tokens

NextRefresh ==
    \/ \E p \in Procs, t \in Presentable : RefreshFind(p, t)
    \/ \E p \in Procs : RefreshGetUser(p)
    \/ \E p \in Procs : RefreshRevoke(p)
    \/ \E p \in Procs : RefreshInsert(p)
    \/ \E p \in Procs : RefreshCommit(p)
    \/ \E p \in Procs : RefreshAbort(p)
    \/ \E p \in Procs, t \in Presentable : Logout(p, t)
    \/ \E p \in Procs, e \in Emails, w \in Passwords : Login(p, e, w)
    \/ \E p \in Procs, u \in Users, c \in Passwords, n \in Passwords :
          ChangePassword(p, u, c, n)
    \/ Tick(RefreshTTL)

SpecRefresh == Init /\ [][NextRefresh]_vars

\* ------------------------------------------------- claims: refresh tokens

\* a request for operation op that presents token t is accepted in this step:
\* either it occupies a slot, or it has returned at once
Accepted(op, t) ==
    /\ started' = started + 1
    /\ IF pc' = pc
       THEN last'.op = op /\ last'.token = t
       ELSE \E p \in Procs : pc'[p] # pc[p] /\ req'[p].op = op /\ req'[p].token = t

\* the request accepted in this step has returned at once with this kind
Rejected(kind) == pc' = pc /\ last'.kind = kind

\* slot p, serving operation op, takes a step
Steps(p, op) == pc[p] # "idle" /\ req[p].op = op /\ pc'[p] # pc[p]

RowsOfToken(token) == {r \in refresh_tokens : r.token_hash = hash_refresh_token(token)}

\* C1: of the refresh requests that present the same refresh token, at most
\* one succeeds: no refresh returns success for a token whose refresh has
\* already returned success.
C1_AtMostOneRedemption ==
    [][\A p \in Procs :
          (Steps(p, "refresh") /\ pc'[p] = "idle" /\ last'.kind = "OK")
              => req[p].token \notin redeemed]_vars

C3_RotationAtomic ==
    [][\A p \in Procs :
          Steps(p, "refresh")
              => IF pc[p] = "rt_commit" /\ last'.kind = "OK"
                 THEN LET old == {r.id : r \in refresh_tokens}
                          new == {r \in refresh_tokens' : r.id \notin old}
                      IN /\ \A r \in refresh_tokens :
                               (IF r.id = loc[p].row THEN [r EXCEPT !.revoked = TRUE] ELSE r)
                                   \in refresh_tokens'
                         /\ Cardinality(new) = 1
                         /\ Cardinality(refresh_tokens') = Cardinality(refresh_tokens) + 1
                         /\ \A r \in new : ~r.revoked /\ r.user_id = loc[p].uid
                                               /\ r.expires_at > now
                 ELSE refresh_tokens' = refresh_tokens]_vars

C3_Witness ==
    /\ last.op = "refresh" /\ last.kind = "OK"
    /\ \E r \in RowsOfToken(last.token), n \in RowsOfToken(last.out) :
          r.revoked /\ ~n.revoked /\ n.user_id = r.user_id

\* C4: a refresh request that presents a token whose row is not revoked but
\* has expires_at <= now ends with Unauthorized and writes nothing.
C4_ExpiredRefreshRejected ==
    [][\A t \in Presentable :
          (/\ Accepted("refresh", t)
           /\ \E r \in RowsOfToken(t) : ~r.revoked /\ r.expires_at <= now)
              => Rejected("Unauthorized") /\ store' = store]_vars

C4_Witness ==
    /\ last.op = "refresh" /\ last.kind = "Unauthorized"
    /\ \E r \in RowsOfToken(last.token) : ~r.revoked /\ r.expires_at <= now

StoreResetToken(rows, u, token, t) ==
    IF u \in DOMAIN rows
    THEN [rows EXCEPT ![u].password_reset_token = token,
                      ![u].password_reset_token_expires_at = t + ResetTokenHours]
    ELSE rows

\* the lookup that accepts any token while the row holds an unexpired one
verify_reset_token_AnyToken(rows, token, t) ==
    {u \in DOMAIN rows : /\ rows[u].password_reset_token # NullToken
                         /\ rows[u].password_reset_token_expires_at > t}

\* verify_reset_token's SELECT id FROM users WHERE password_reset_token = $1
\* AND password_reset_token_expires_at > $2
verify_reset_token(rows, token, t) ==
    {u \in DOMAIN rows : /\ rows[u].password_reset_token = token
                         /\ rows[u].password_reset_token # NullToken
                         /\ rows[u].password_reset_token_expires_at > t}

\* the reset transaction clearing every token of the row
ClearResetToken_AllTokens(rows, u) ==
    IF u \in DOMAIN rows
    THEN [rows EXCEPT ![u].password_reset_token = NullToken,
                      ![u].password_reset_token_expires_at = NullTime,
                      ![u].verification_token = NullToken,
                      ![u].verification_token_expires_at = NullTime]
    ELSE rows

\* the reset transaction never clearing the token
ClearResetToken_Forgotten(rows, u) == rows

\* UPDATE users SET password_reset_token = NULL,
\* password_reset_token_expires_at = NULL WHERE id = $1
ClearResetToken(rows, u) ==
    IF u \in DOMAIN rows
    THEN [rows EXCEPT ![u].password_reset_token = NullToken,
                      ![u].password_reset_token_expires_at = NullTime]
    ELSE rows

\* row locks held by an open reset_password transaction
HoldsCredentialLock(q, u) == pc[q] \in {"rp_clear", "rp_commit"} /\ loc[q].uid = u
HoldsUserLock(q, u) == pc[q] = "rp_commit" /\ loc[q].uid = u

CredentialRowFree(p, u) == \A q \in Procs \ {p} : ~HoldsCredentialLock(q, u)
UserRowFree(p, u) == \A q \in Procs \ {p} : ~HoldsUserLock(q, u)

\* a lookup that falls back to every user when none has the address
FindUserByEmail_AnyUser(rows, email) ==
    IF \E u \in DOMAIN rows : rows[u].email = email
    THEN {u \in DOMAIN rows : rows[u].email = email}
    ELSE DOMAIN rows

\* SELECT ... FROM users WHERE email = $1
FindUserByEmail(rows, email) == {u \in DOMAIN rows : rows[u].email = email}

\* request_password_reset: validate, SELECT the user by email; no user ends
\* the request with the success message
RequestResetFind(p, email) ==
    /\ Accept(p)
    /\ LET found == FindUserByEmail(users, email)
       IN IF ~ValidEmail(email)
          THEN /\ ReplyMessage("request_password_reset", NoUser, ValidationError, email)
               /\ UNCHANGED procs
          ELSE IF found = {}
          THEN /\ ReplyMessage("request_password_reset", NoUser, ResetMailSent, email)
               /\ UNCHANGED procs
          ELSE /\ \E u \in found :
                    /\ loc' = [loc EXCEPT ![p] = [NoLoc EXCEPT !.uid = u]]
                    /\ req' = [req EXCEPT ![p] = [NoReq EXCEPT
                                 !.op = "request_password_reset", !.uid = u,
                                 !.email = email]]
               /\ pc' = [pc EXCEPT ![p] = "rq_store"]
               /\ last' = last
    /\ UNCHANGED <<now, posts, ticks, store, nextToken, nextRowId, outbox, hist>>

\* pool.begin(); create_reset_token (generate, UPDATE users); tx.commit()
RequestResetStore(p) ==
    /\ pc[p] = "rq_store"
    /\ UserRowFree(p, loc[p].uid)
    /\ users' = StoreResetToken(users, loc[p].uid, nextToken, now)
    /\ loc' = [loc EXCEPT ![p].token = nextToken]
    /\ nextToken' = nextToken + 1
    /\ pc' = [pc EXCEPT ![p] = "rq_send"]
    /\ UNCHANGED <<now, posts, ticks, started, user_credentials, refresh_tokens, nextRowId,
                   outbox, req, last, hist>>

\* the transaction fails before its commit: nothing is stored
RequestResetAbort(p) ==
    /\ pc[p] = "rq_store"
    /\ Return(p)
    /\ ReplyMessage("request_password_reset", loc[p].uid, DatabaseError, req[p].email)
    /\ UNCHANGED <<now, posts, ticks, started, store, nextToken, nextRowId, outbox, hist>>

\* send_password_reset_email to the address read by the first SELECT; a
\* delivery failure is returned as an internal error
RequestResetSend(p, delivered) ==
    /\ pc[p] = "rq_send"
    /\ Return(p)
    /\ IF delivered
       THEN /\ outbox' = outbox \cup {[kind |-> "password_reset", uid |-> loc[p].uid,
                                       to |-> req[p].email, token |-> loc[p].token]}
            /\ ReplyMessage("request_password_reset", loc[p].uid, ResetMailSent,
                            req[p].email)
       ELSE /\ outbox' = outbox
            /\ ReplyMessage("request_password_reset", loc[p].uid, InternalError,
                            req[p].email)
    /\ UNCHANGED <<now, posts, ticks, started, store, nextToken, nextRowId, hist>>

\* reset_password: validate, verify_reset_token, hash the new password
ResetVerify(p, token, new_password) ==
    /\ Accept(p)
    /\ LET found == verify_reset_token(users, token, now)
       IN IF ~ValidNewPassword(new_password)
          THEN /\ ReplyPassword("reset_password", token, NoUser, "Validation",
                                token \in resetDone, new_password)
               /\ UNCHANGED procs
          ELSE IF found = {}
          THEN /\ ReplyPassword("reset_password", token, NoUser, "BadRequest",
                                token \in resetDone, new_password)
               /\ UNCHANGED procs
          ELSE /\ \E u \in found :
                    /\ loc' = [loc EXCEPT ![p] = [NoLoc EXCEPT !.uid = u,
                          !.hash = hash_password(new_password,
                                      IF u \in DOMAIN user_credentials
                                      THEN FreshSalt(user_credentials[u].salt)
                                      ELSE 1)]]
                    /\ req' = [req EXCEPT ![p] = [NoReq EXCEPT
                                 !.op = "reset_password", !.token = token, !.uid = u,
                                 !.new_password = new_password]]
               /\ pc' = [pc EXCEPT ![p] = "rp_update"]
               /\ last' = last
    /\ UNCHANGED <<now, posts, ticks, store, nextToken, nextRowId, outbox, hist>>

\* pool.begin(); UPDATE user_credentials SET password_hash = $1, salt = $2
ResetUpdateCredential(p) ==
    /\ pc[p] = "rp_update"
    /\ CredentialRowFree(p, loc[p].uid)
    /\ pc' = [pc EXCEPT ![p] = "rp_clear"]
    /\ UNCHANGED <<now, posts, ticks, started, store, nextToken, nextRowId, outbox, req, loc,
                   last, hist>>

\* UPDATE users SET password_reset_token = NULL, ... WHERE id = $1
ResetClearToken(p) ==
    /\ pc[p] = "rp_clear"
    /\ UserRowFree(p, loc[p].uid)
    /\ pc' = [pc EXCEPT ![p] = "rp_commit"]
    /\ UNCHANGED <<now, posts, ticks, started, store, nextToken, nextRowId, outbox, req, loc,
                   last, hist>>

\* tx.commit(): both writes become visible
ResetCommit(p) ==
    /\ pc[p] = "rp_commit"
    /\ user_credentials' = UpdateCredential(user_credentials, loc[p].uid, loc[p].hash)
    /\ users' = ClearResetToken(users, loc[p].uid)
    /\ Return(p)
    /\ ReplyPassword("reset_password", req[p].token, loc[p].uid, "OK",
                     req[p].token \in resetDone, req[p].new_password)
    /\ refresh_tokens' = SessionsAfterPasswordChange(refresh_tokens, loc[p].uid)
    /\ resetDone' = resetDone \cup {req[p].token}
    /\ UNCHANGED <<now, posts, ticks, started, nextToken, nextRowId, outbox,
                   redeemed, loggedOut, verifyDone, issued, access_tokens>>

\* a statement of the transaction fails, or the connection drops before the
\* commit: the transaction is rolled back
ResetAbort(p) ==
    /\ pc[p] \in {"rp_clear", "rp_commit"}
    /\ Return(p)
    /\ ReplyPassword("reset_password", req[p].token, loc[p].uid, "Database",
                     req[p].token \in resetDone, req[p].new_password)
    /\ UNCHANGED <<now, posts, ticks, started, store, nextToken, nextRowId, outbox, hist>>

\* -------------------------------------------- specification: password reset

NextReset ==
    \/ \E p \in Procs, e \in Emails : RequestResetFind(p, e)
    \/ \E p \in Procs : RequestResetStore(p)
    \/ \E p \in Procs : RequestResetAbort(p)
    \/ \E p \in Procs, d \in BOOLEAN : RequestResetSend(p, d)
    \/ \E p \in Procs, t \in Presentable, w \in NewPasswords : ResetVerify(p, t, w)
    \/ \E p \in Procs : ResetUpdateCredential(p)
    \/ \E p \in Procs : ResetClearToken(p)
    \/ \E p \in Procs : ResetCommit(p)
    \/ \E p \in Procs : ResetAbort(p)
    \/ \E p \in Procs, u \in Users, c \in Passwords, n \in Passwords :
          ChangePassword(p, u, c, n)
    \/ Tick(ResetTokenHours)

SpecReset == Init /\ [][NextReset]_vars

\* ------------------------------------------------- claims: password reset

C8_AtMostOneReset ==
    [][\A p \in Procs :
          (Steps(p, "reset_password") /\ pc'[p] = "idle" /\ last'.kind = "OK")
              => req[p].token \notin resetDone]_vars

\* C9: a reset_password request changes the committed users and
\* user_credentials tables in one step only, its commit, and there it does
\* both: the credential row holds the new hash and the user's reset token and
\* expiry are null; every other step, a failure inside the transaction
\* included, leaves both tables as they were.
C9_ResetAtomic ==
    [][\A p \in Procs :
          Steps(p, "reset_password")
              => IF pc[p] = "rp_commit" /\ last'.kind = "OK"
                 THEN LET u == loc[p].uid
                      IN /\ user_credentials'[u] = loc[p].hash
                         /\ users'[u].password_reset_token = NullToken
                         /\ users'[u].password_reset_token_expires_at = NullTime
                 ELSE users' = users /\ user_credentials' = user_credentials]_vars

C9_Witness ==
    /\ last.op = "reset_password" /\ last.kind = "OK"
    /\ last.uid \in DOMAIN users
    /\ users[last.uid].password_reset_token = NullToken
    /\ verify_password(last.new_password, user_credentials[last.uid].password_hash)

\* ------------------------------------------------ email-verification tokens

\* the write of the token rolled back
StoreVerificationToken_RolledBack(rows, u, token, t) == rows

\* the token replaced, its expiry left as it was
StoreVerificationToken_KeepExpiry(rows, u, token, t) ==
    IF u \in DOMAIN rows THEN [rows EXCEPT ![u].verification_token = token] ELSE rows

\* create_verification_token's UPDATE users SET verification_token = $1,
\* verification_token_expires_at = $2 WHERE id = $3
StoreVerificationToken(rows, u, token, t) ==
    IF u \in DOMAIN rows
    THEN [rows EXCEPT ![u].verification_token = token,
                      ![u].verification_token_expires_at = t + VerificationTokenHours]
    ELSE rows

\* the lookup without the expiry condition
FindVerificationToken_IgnoreExpiry(rows, token, t) ==
    {u \in DOMAIN rows : /\ rows[u].verification_token = token
                         /\ rows[u].verification_token # NullToken
                         /\ rows[u].email_verified_at = NullTime}

\* verify_email's SELECT id FROM users WHERE verification_token = $1 AND
\* verification_token_expires_at > $2 AND email_verified_at IS NULL
FindVerificationToken(rows, token, t) ==
    {u \in DOMAIN rows : /\ rows[u].verification_token = token
                         /\ rows[u].verification_token # NullToken
                         /\ rows[u].verification_token_expires_at > t
                         /\ rows[u].email_verified_at = NullTime}

\* the verification write leaving the token and the timestamp in place
MarkVerified_KeepToken(rows, u, t) ==
    IF u \in DOMAIN rows THEN [rows EXCEPT ![u].email_verified = TRUE] ELSE rows

\* verify_email's UPDATE users SET email_verified_at = $1, email_verified =
\* true, verification_token = NULL, verification_token_expires_at = NULL
\* WHERE id = $2
MarkVerified(rows, u, t) ==
    IF u \in DOMAIN rows
    THEN [rows EXCEPT ![u].email_verified_at = t,
                      ![u].email_verified = TRUE,
                      ![u].verification_token = NullToken,
                      ![u].verification_token_expires_at = NullTime]
    ELSE rows

\* the address change leaving the verification timestamp in place
SetEmail_KeepTimestamp(rows, u, email) ==
    IF u \in DOMAIN rows
    THEN [rows EXCEPT ![u].email = email, ![u].email_verified = FALSE]
    ELSE rows

\* update_email's UPDATE users SET email = $2, email_verified = false,
\* email_verified_at = NULL WHERE id = $1
SetEmail(rows, u, email) ==
    IF u \in DOMAIN rows
    THEN [rows EXCEPT ![u].email = email,
                      ![u].email_verified = FALSE,
                      ![u].email_verified_at = NullTime]
    ELSE rows

\* the unique index on users.email refuses a second row with this address
users_email_key(rows, u, email) ==
    \E v \in DOMAIN rows \ {u} : rows[v].email = email

\* verify_email: SELECT the user that holds the token
VerifyEmailFind(p, token) ==
    /\ Accept(p)
    /\ LET found == FindVerificationToken(users, token, now)
       IN IF found = {}
          THEN /\ Reply("verify_email", token, NoUser, "BadRequest", BogusToken,
                        token \in verifyDone)
               /\ UNCHANGED procs
          ELSE /\ \E u \in found :
                    /\ loc' = [loc EXCEPT ![p] = [NoLoc EXCEPT !.uid = u, !.row = now]]
                    /\ req' = [req EXCEPT ![p] = [NoReq EXCEPT
                                 !.op = "verify_email", !.token = token, !.uid = u]]
               /\ pc' = [pc EXCEPT ![p] = "ve_update"]
               /\ last' = last
    /\ UNCHANGED <<now, posts, ticks, store, nextToken, nextRowId, outbox, hist>>

\* verify_email: the UPDATE by id, with the time read before the SELECT
VerifyEmailUpdate(p) ==
    /\ pc[p] = "ve_update"
    /\ users' = MarkVerified(users, loc[p].uid, loc[p].row)
    /\ Return(p)
    /\ Reply("verify_email", req[p].token, loc[p].uid, "OK", BogusToken,
             req[p].token \in verifyDone)
    /\ verifyDone' = verifyDone \cup {req[p].token}
    /\ UNCHANGED <<now, posts, ticks, started, user_credentials, refresh_tokens, nextToken,
                   nextRowId, outbox, redeemed, loggedOut, resetDone, issued,
                   access_tokens>>

\* verify_email: the UPDATE fails
VerifyEmailFail(p) ==
    /\ pc[p] = "ve_update"
    /\ Return(p)
    /\ Reply("verify_email", req[p].token, loc[p].uid, "Database", BogusToken,
             req[p].token \in verifyDone)
    /\ UNCHANGED <<now, posts, ticks, started, store, nextToken, nextRowId, outbox, hist>>

\* resend_verification_email: pool.begin(), SELECT the user by id; a verified
\* address ends the request
ResendFind(p, u) ==
    /\ Accept(p)
    /\ IF u \notin DOMAIN users
       THEN /\ Reply("resend_verification", BogusToken, u, "Database", BogusToken, FALSE)
            /\ UNCHANGED procs
       ELSE IF users[u].email_verified
       THEN /\ Reply("resend_verification", BogusToken, u, "BadRequest", BogusToken, FALSE)
            /\ UNCHANGED procs
       ELSE /\ loc' = [loc EXCEPT ![p] = [NoLoc EXCEPT !.uid = u]]
            /\ req' = [req EXCEPT ![p] = [NoReq EXCEPT
                         !.op = "resend_verification", !.uid = u,
                         !.email = users[u].email]]
            /\ pc' = [pc EXCEPT ![p] = "rs_store"]
            /\ last' = last
    /\ UNCHANGED <<now, posts, ticks, store, nextToken, nextRowId, outbox, hist>>

\* create_verification_token; tx.commit()
ResendStore(p) ==
    /\ pc[p] = "rs_store"
    /\ users' = StoreVerificationToken(users, loc[p].uid, nextToken, now)
    /\ loc' = [loc EXCEPT ![p].token = nextToken]
    /\ nextToken' = nextToken + 1
    /\ pc' = [pc EXCEPT ![p] = "rs_send"]
    /\ UNCHANGED <<now, posts, ticks, started, user_credentials, refresh_tokens, nextRowId,
                   outbox, req, last, hist>>

\* send_verification_email to the address read by the SELECT; a delivery
\* failure is returned as an internal error
ResendSend(p, delivered) ==
    /\ pc[p] = "rs_send"
    /\ Return(p)
    /\ IF delivered
       THEN /\ outbox' = outbox \cup {[kind |-> "verification", uid |-> loc[p].uid,
                                       to |-> req[p].email, token |-> loc[p].token]}
            /\ Reply("resend_verification", BogusToken, loc[p].uid, "OK", BogusToken, FALSE)
       ELSE /\ outbox' = outbox
            /\ Reply("resend_verification", BogusToken, loc[p].uid, "Internal",
                     BogusToken, FALSE)
    /\ UNCHANGED <<now, posts, ticks, started, store, nextToken, nextRowId, hist>>

\* the two refusals of update_email
UpdateEmailError(cause) ==
    CASE cause = "same" ->
            [kind |-> "BadRequest",
             message |-> "New email must be different from current email"]
      [] cause = "taken" -> [kind |-> "Conflict", message |-> "Email already exists"]

\* the address is written, the verification status is left as it was
UpdateEmailRows_AddressOnly(rows, u, email, token, t) ==
    IF u \in DOMAIN rows THEN [rows EXCEPT ![u].email = email] ELSE rows

\* the rows update_email's transaction commits: the UPDATE of the address and
\* of the verification status, then start_verification_flow
UpdateEmailRows(rows, u, email, token, t) ==
    StoreVerificationToken(SetEmail(rows, u, email), u, token, t)

\* update_email of the authenticated user u: compare with the current address,
\* count the other users that hold the new one
UpdateEmailCheck(p, u, email) ==
    /\ Accept(p)
    /\ u \in DOMAIN users
    /\ IF users[u].email = email
       THEN /\ ReplyMessage("update_email", u, UpdateEmailError("same"), email)
            /\ UNCHANGED procs
       ELSE IF \E v \in DOMAIN users \ {u} : users[v].email = email
       THEN /\ ReplyMessage("update_email", u, UpdateEmailError("taken"), email)
            /\ UNCHANGED procs
       ELSE /\ loc' = [loc EXCEPT ![p] = [NoLoc EXCEPT !.uid = u]]
            /\ req' = [req EXCEPT ![p] = [NoReq EXCEPT
                         !.op = "update_email", !.uid = u, !.email = email]]
            /\ pc' = [pc EXCEPT ![p] = "ue_store"]
            /\ last' = last
    /\ UNCHANGED <<now, posts, ticks, store, nextToken, nextRowId, outbox, hist>>

\* update_email's transaction: UPDATE the address and reset the verification
\* status, start_verification_flow, commit; the email is sent by a spawned
\* task whose failure is dropped
UpdateEmailStore(p, delivered) ==
    /\ pc[p] = "ue_store"
    /\ Return(p)
    /\ IF \/ loc[p].uid \notin DOMAIN users
          \/ users_email_key(users, loc[p].uid, req[p].email)
       THEN /\ ReplyMessage("update_email", loc[p].uid, DatabaseError, req[p].email)
            /\ UNCHANGED <<users, nextToken, outbox>>
       ELSE /\ users' = UpdateEmailRows(users, loc[p].uid, req[p].email, nextToken, now)
            /\ nextToken' = nextToken + 1
            /\ outbox' = IF delivered
                         THEN outbox \cup {[kind |-> "verification", uid |-> loc[p].uid,
                                            to |-> req[p].email, token |-> nextToken]}
                         ELSE outbox
            /\ ReplyMessage("update_email", loc[p].uid, [kind |-> "OK", message |-> ""],
                            req[p].email)
    /\ UNCHANGED <<now, posts, ticks, started, user_credentials, refresh_tokens, nextRowId, hist>>

\* ---------------------------------------- specification: email verification

NextVerify ==
    \/ \E p \in Procs, t \in Presentable : VerifyEmailFind(p, t)
    \/ \E p \in Procs : VerifyEmailUpdate(p)
    \/ \E p \in Procs : VerifyEmailFail(p)
    \/ \E p \in Procs, u \in Users : ResendFind(p, u)
    \/ \E p \in Procs : ResendStore(p)
    \/ \E p \in Procs, d \in BOOLEAN : ResendSend(p, d)
    \/ \E p \in Procs, u \in Users, e \in NewEmails : UpdateEmailCheck(p, u, e)
    \/ \E p \in Procs, d \in BOOLEAN : UpdateEmailStore(p, d)
    \/ Tick(VerificationTokenHours)

SpecVerify == Init /\ [][NextVerify]_vars

\* --------------------------------------------- claims: email verification

\* C10: the write of a successful verify_email sets email_verified and
\* email_verified_at and clears verification_token and its expiry together,
\* and once a verify_email presenting token T has returned success, every
\* verify_email accepted afterwards that presents T ends at once with
\* BadRequest and leaves the store as it was.
C10_VerificationTokenSingleUse ==
    [][/\ \A t \in Presentable :
            (Accepted("verify_email", t) /\ t \in verifyDone)
                => Rejected("BadRequest") /\ store' = store
       /\ \A p \in Procs :
            (Steps(p, "verify_email") /\ last'.kind = "OK")
                => LET u == loc[p].uid
                   IN /\ users'[u].email_verified
                      /\ users'[u].email_verified_at # NullTime
                      /\ users'[u].verification_token = NullToken
                      /\ users'[u].verification_token_expires_at = NullTime]_vars

C10_Witness ==
    /\ last.op = "verify_email" /\ last.kind = "BadRequest"
    /\ last.token \in verifyDone /\ last.repeat
    /\ \E u \in DOMAIN users : users[u].email_verified

\* C11: of the verify_email requests that present the same verification
\* token exactly one returns success: no verify_email returns success for a
\* token whose verify_email has already returned success.
C11_AtMostOneVerification ==
    [][\A p \in Procs :
          (Steps(p, "verify_email") /\ pc'[p] = "idle" /\ last'.kind = "OK")
              => req[p].token \notin verifyDone]_vars

\* C12: a verify_email request goes on to its write only if, when it is
\* accepted, some user row holds the presented token with an expiry after the
\* current time and a null email_verified_at; in every other case (unknown
\* token, expired token, user already verified) it ends at once with
\* BadRequest and leaves every user row as it was.
C12_VerifyEmailRejectsNoMatch ==
    [][\A t \in Presentable :
          Accepted("verify_email", t)
              => IF \E u \in DOMAIN users :
                       /\ users[u].verification_token = t
                       /\ users[u].verification_token_expires_at > now
                       /\ users[u].email_verified_at = NullTime
                 THEN pc' # pc /\ users' = users
                 ELSE Rejected("BadRequest") /\ users' = users]_vars

\* an expired token that is still stored on a user row has been refused
C12_Witness ==
    /\ last.op = "verify_email" /\ last.kind = "BadRequest"
    /\ \E u \in DOMAIN users :
          /\ users[u].verification_token = last.token
          /\ users[u].verification_token_expires_at <= now

\* ------------------------------------------------------------------ register

RegUsernames == {SeedName["u1"], "alice01"}
RegEmails == {SeedEmail["u1"], "new@example.com"}
RegPasswords == {"password123", "short"}

\* the id the database generates for the user row of the n-th request
NewUserId(n) == "n" \o ToString(n)
AllUsers == Users \cup {NewUserId(n) : n \in 1..MaxRequests}

\* the custom validator of RegisterRequest.username
username_validator(username) == Len(username) >= 3

\* RegisterRequest: username validator, email format, password of 8 or more
ValidRegister(username, email, password) ==
    /\ username_validator(username)
    /\ email \in RegEmails \cup Emails
    /\ Len(password) >= MinPasswordLen

\* the row of INSERT INTO users (username, email, display_name,
\* email_verified) VALUES ($1, $2, $3, false) RETURNING *
NewUserRow(username, email) ==
    [username |-> username, email |-> email, email_verified |-> FALSE,
     email_verified_at |-> NullTime,
     verification_token |-> NullToken, verification_token_expires_at |-> NullTime,
     password_reset_token |-> NullToken, password_reset_token_expires_at |-> NullTime]

InsertUser(rows, id, username, email) == (id :> NewUserRow(username, email)) @@ rows

\* the registration transaction writing the user row only
InsertCredential_Skipped(creds, id, hash) == creds

\* INSERT INTO user_credentials (user_id, password_hash, salt)
InsertCredential(creds, id, hash) == (id :> hash) @@ creds

\* SELECT * FROM users WHERE email = $1 OR username = $2
FindExistingUser(rows, email, username) ==
    {u \in DOMAIN rows : rows[u].email = email \/ rows[u].username = username}

\* the unique index on users.username refuses a second row with this name
users_username_key(rows, u, username) ==
    \E v \in DOMAIN rows \ {u} : rows[v].username = username

\* the response announcing an hour of validity
RegisterResponse_Hour(u, username, email) ==
    [access_token |-> create_jwt_token(u, AccessTokenMinutes), token_type |-> "Bearer",
     expires_in |-> 3600,
     email_verified |-> NewUserRow(username, email).email_verified]

\* the AuthResponse of register, built from the row the INSERT returned
RegisterResponse(u, username, email) ==
    [access_token |-> create_jwt_token(u, AccessTokenMinutes), token_type |-> "Bearer",
     expires_in |-> ExpiresInSeconds,
     email_verified |-> NewUserRow(username, email).email_verified]

\* register: validate, SELECT a user with this email or username, hash the
\* password
RegisterCheck(p, username, email, password) ==
    /\ Accept(p)
    /\ IF ~ValidRegister(username, email, password)
       THEN /\ ReplyBody("register", NoUser, "Validation", BogusToken, NoBody)
            /\ UNCHANGED procs
       ELSE IF FindExistingUser(users, email, username) # {}
       THEN /\ ReplyBody("register", NoUser, "Conflict", BogusToken, NoBody)
            /\ UNCHANGED procs
       ELSE /\ loc' = [loc EXCEPT ![p] = [NoLoc EXCEPT
                         !.uid = NewUserId(started + 1),
                         !.hash = hash_password(password, 1)]]
            /\ req' = [req EXCEPT ![p] = [NoReq EXCEPT
                         !.op = "register", !.username = username, !.email = email]]
            /\ pc' = [pc EXCEPT ![p] = "rg_insert"]
            /\ last' = last
    /\ UNCHANGED <<now, posts, ticks, store, nextToken, nextRowId, outbox, hist>>

\* the first transaction: INSERT the user row, INSERT the credential row,
\* commit; a unique index refusing the row is a database error
RegisterCreate(p) ==
    /\ pc[p] = "rg_insert"
    /\ IF \/ users_email_key(users, loc[p].uid, req[p].email)
          \/ users_username_key(users, loc[p].uid, req[p].username)
       THEN /\ Return(p)
            /\ ReplyBody("register", NoUser, "Database", BogusToken, NoBody)
            /\ UNCHANGED <<users, user_credentials>>
       ELSE /\ users' = InsertUser(users, loc[p].uid, req[p].username, req[p].email)
            /\ user_credentials' = InsertCredential(user_credentials, loc[p].uid, loc[p].hash)
            /\ pc' = [pc EXCEPT ![p] = "rg_token"]
            /\ UNCHANGED <<req, loc, last>>
    /\ UNCHANGED <<now, posts, ticks, started, refresh_tokens, nextToken, nextRowId, outbox, hist>>

\* the second transaction: start_verification_flow, commit; the email is sent
\* by a spawned task whose failure is dropped
RegisterToken(p, delivered) ==
    /\ pc[p] = "rg_token"
    /\ users' = StoreVerificationToken(users, loc[p].uid, nextToken, now)
    /\ nextToken' = nextToken + 1
    /\ outbox' = IF delivered
                 THEN outbox \cup {[kind |-> "verification", uid |-> loc[p].uid,
                                    to |-> req[p].email, token |-> nextToken]}
                 ELSE outbox
    /\ pc' = [pc EXCEPT ![p] = "rg_refresh"]
    /\ UNCHANGED <<now, posts, ticks, started, user_credentials, refresh_tokens, nextRowId,
                   req, loc, last, hist>>

\* create_jwt_token, generate the refresh token, INSERT its row, return 201
RegisterRefresh(p) ==
    /\ pc[p] = "rg_refresh"
    /\ Return(p)
    /\ IF refresh_tokens_user_id_fkey(users, loc[p].uid)
       THEN /\ refresh_tokens' = refresh_tokens \cup
                  {NewRefreshRow(nextRowId, loc[p].uid, hash_refresh_token(nextToken), now)}
            /\ ReplyBody("register", loc[p].uid, "Created", nextToken,
                         RegisterResponse(loc[p].uid, req[p].username, req[p].email))
            /\ nextToken' = nextToken + 1
            /\ nextRowId' = nextRowId + 1
            /\ issued' = issued \cup {nextToken}
            /\ access_tokens' = access_tokens \cup
                  {create_jwt_token(loc[p].uid, AccessTokenMinutes)}
       ELSE /\ ReplyBody("register", loc[p].uid, "Database", BogusToken, NoBody)
            /\ UNCHANGED <<refresh_tokens, nextToken, nextRowId, issued, access_tokens>>
    /\ UNCHANGED <<now, posts, ticks, started, users, user_credentials, outbox,
                   redeemed, loggedOut, resetDone, verifyDone>>

\* a statement or a commit of register fails, or the configuration cannot be
\* read: the open transaction, if any, is rolled back and the error returned
RegisterFail(p) ==
    /\ pc[p] \in {"rg_insert", "rg_token", "rg_refresh"}
    /\ Return(p)
    /\ ReplyBody("register", loc[p].uid, "Database", BogusToken, NoBody)
    /\ UNCHANGED <<now, posts, ticks, started, store, nextToken, nextRowId, outbox, hist>>

\* ------------------------------------------------ specification: register

NextRegister ==
    \/ \E p \in Procs, n \in RegUsernames, e \in RegEmails, w \in RegPasswords :
          RegisterCheck(p, n, e, w)
    \/ \E p \in Procs : RegisterCreate(p)
    \/ \E p \in Procs, d \in BOOLEAN : RegisterToken(p, d)
    \/ \E p \in Procs : RegisterRefresh(p)
    \/ \E p \in Procs : RegisterFail(p)
    \/ Tick(RefreshTTL)

SpecRegister == Init /\ [][NextRegister]_vars

\* ------------------------------------------------------- claims: register

\* C14: registration is one atomic unit: a register request that does not
\* return success leaves no user row of its own behind.
C14_RegisterAtomic ==
    [][\A p \in Procs :
          (Steps(p, "register") /\ pc'[p] = "idle" /\ last'.kind # "Created")
              => loc[p].uid \notin DOMAIN users']_vars

\* C16: a register request that returns success returns status 201 with an
\* access token and a refresh token, token_type Bearer, expires_in 900 and
\* user.email_verified false, and the store then holds the new user row with
\* the requested name and address, its credential row, exactly one
\* refresh-token row of the user, not revoked and holding the hash of the
\* returned token, and a verification token with its expiry on the user row.
C16_RegisterSuccess ==
    [][\A p \in Procs :
          (Steps(p, "register") /\ pc'[p] = "idle" /\ last'.kind \notin
               {"Validation", "Conflict", "Database"})
              => LET u == loc[p].uid
                 IN /\ StatusCode(last'.kind) = 201
                    /\ last'.body.access_token # NoBody.access_token
                    /\ last'.body.access_token.sub = u
                    /\ last'.out \notin {BogusToken, NullToken}
                    /\ last'.body.token_type = "Bearer"
                    /\ last'.body.expires_in = 900
                    /\ last'.body.email_verified = FALSE
                    /\ u \in DOMAIN users'
                    /\ users'[u].username = req[p].username
                    /\ users'[u].email = req[p].email
                    /\ u \in DOMAIN user_credentials'
                    /\ user_credentials'[u] = loc[p].hash
                    /\ \E r \in refresh_tokens' :
                          /\ r.user_id = u /\ ~r.revoked /\ r.expires_at > now
                          /\ r.token_hash = hash_refresh_token(last'.out)
                          /\ \A r2 \in refresh_tokens' : r2.user_id = u => r2 = r
                    /\ users'[u].verification_token # NullToken
                    /\ users'[u].verification_token_expires_at # NullTime]_vars

C16_Witness ==
    /\ last.op = "register" /\ last.kind = "Created"
    /\ last.uid \in DOMAIN users /\ last.uid \notin Users
    /\ last.out \in issued

\* C17: a register request whose username or email is that of an existing
\* user when its INSERT runs returns Conflict and leaves the store as it was.
C17_DuplicateIsConflict ==
    [][\A p \in Procs :
          (/\ Steps(p, "register") /\ pc[p] = "rg_insert"
           /\ FindExistingUser(users, req[p].email, req[p].username) # {})
              => last'.kind = "Conflict" /\ store' = store]_vars

\* ------------------------- specification: registration and verification

NextAccount ==
    \/ \E p \in Procs, n \in RegUsernames, e \in RegEmails, w \in RegPasswords :
          RegisterCheck(p, n, e, w)
    \/ \E p \in Procs : RegisterCreate(p)
    \/ \E p \in Procs, d \in BOOLEAN : RegisterToken(p, d)
    \/ \E p \in Procs : RegisterRefresh(p)
    \/ \E p \in Procs : RegisterFail(p)
    \/ \E p \in Procs, t \in Presentable : VerifyEmailFind(p, t)
    \/ \E p \in Procs : VerifyEmailUpdate(p)
    \/ \E p \in Procs : VerifyEmailFail(p)
    \/ \E p \in Procs, u \in AllUsers, e \in NewEmails : UpdateEmailCheck(p, u, e)
    \/ \E p \in Procs, d \in BOOLEAN : UpdateEmailStore(p, d)
    \/ Tick(VerificationTokenHours)

SpecAccount == Init /\ [][NextAccount]_vars

\* C13: in every state every user row has email_verified true exactly when
\* its email_verified_at is set.
C13_VerifiedIffTimestamp ==
    \A u \in DOMAIN users :
        users[u].email_verified <=> users[u].email_verified_at # NullTime

\* a registered user has verified the address
C13_Witness ==
    \E u \in DOMAIN users \ Users :
        users[u].email_verified /\ users[u].email_verified_at # NullTime

\* --------------------------------------------------------------- delete_user

\* DELETE FROM user_credentials WHERE user_id = $1, and DELETE FROM users
\* WHERE id = $1: the table without the row of u
DeleteRow(rows, u) == [v \in DOMAIN rows \ {u} |-> rows[v]]

\* DELETE FROM refresh_tokens WHERE user_id = $1
DeleteRefreshTokens(rows, u) == {r \in rows : r.user_id # u}

\* delete_user of the authenticated user u: one transaction that deletes the
\* credential row, the refresh-token rows and the user row; it waits for the
\* transactions that hold a lock on one of them
\* DELETE FROM comments WHERE user_id = $1; the comments on the user's threads
\* go with the threads
DeleteComments(rows, thread_rows, u) ==
    {c \in rows : /\ c.user_id # u
                  /\ \A t \in thread_rows : t.id = c.thread_id => t.user_id # u}

\* DELETE FROM threads WHERE user_id = $1
DeleteThreads(rows, u) == {t \in rows : t.user_id # u}

DeleteUser(p, u) ==
    /\ Accept(p)
    /\ u \in DOMAIN users
    /\ CredentialRowFree(p, u)
    /\ UserRowFree(p, u)
    /\ \A r \in refresh_tokens : r.user_id = u => TokenRowFree(p, r.id)
    /\ user_credentials' = DeleteRow(user_credentials, u)
    /\ refresh_tokens' = DeleteRefreshTokens(refresh_tokens, u)
    /\ users' = DeleteRow(users, u)
    /\ comments' = DeleteComments(comments, threads, u)
    /\ threads' = DeleteThreads(threads, u)
    /\ Reply("delete_user", BogusToken, u, "OK", BogusToken, FALSE)
    /\ UNCHANGED <<now, ticks, nextToken, nextRowId, outbox, procs, hist>>

\* a statement or the commit of delete_user fails: nothing is deleted
DeleteUserFail(p, u) ==
    /\ Accept(p)
    /\ u \in DOMAIN users
    /\ Reply("delete_user", BogusToken, u, "Internal", BogusToken, FALSE)
    /\ UNCHANGED <<now, posts, ticks, store, nextToken, nextRowId, outbox, procs, hist>>

\* ------------------------------------------- specification: credential rows

NextCredential ==
    \/ \E p \in Procs : RegisterCheck(p, "alice01", "new@example.com", "password123")
    \/ \E p \in Procs : RegisterCreate(p)
    \/ \E p \in Procs, d \in BOOLEAN : RegisterToken(p, d)
    \/ \E p \in Procs : RegisterRefresh(p)
    \/ \E p \in Procs : RegisterFail(p)
    \/ \E p \in Procs, u \in AllUsers : DeleteUser(p, u)
    \/ \E p \in Procs, u \in AllUsers : DeleteUserFail(p, u)
    \/ \E p \in Procs, u \in AllUsers, c \in Passwords :
          ChangePassword(p, u, c, "newpassword456")
    \/ \E p \in Procs : RequestResetFind(p, SeedEmail["u1"])
    \/ \E p \in Procs : RequestResetStore(p)
    \/ \E p \in Procs : RequestResetAbort(p)
    \/ \E p \in Procs, d \in BOOLEAN : RequestResetSend(p, d)
    \/ \E p \in Procs, t \in Presentable : ResetVerify(p, t, "newpassword456")
    \/ \E p \in Procs : ResetUpdateCredential(p)
    \/ \E p \in Procs : ResetClearToken(p)
    \/ \E p \in Procs : ResetCommit(p)
    \/ \E p \in Procs : ResetAbort(p)

SpecCredential == Init /\ [][NextCredential]_vars

\* C15: before and after every step the users that exist are exactly the
\* users that have a credential row, and a change_password or reset_password request changes
\* a credential row in place: it never adds or removes a row.
C15_OneCredentialPerUser ==
    [][/\ DOMAIN user_credentials = DOMAIN users
       /\ DOMAIN user_credentials' = DOMAIN users'
       /\ \A p \in Procs :
            Steps(p, "reset_password")
                => DOMAIN user_credentials' = DOMAIN user_credentials
       /\ (started' = started + 1 /\ last'.op = "change_password" /\ pc' = pc)
                => DOMAIN user_credentials' = DOMAIN user_credentials]_vars

\* a seeded user has been deleted and a registered user has changed the
\* password
C15_Witness ==
    /\ Users \ DOMAIN users # {}
    /\ \E u \in DOMAIN users \ Users :
          /\ u \in DOMAIN user_credentials
          /\ verify_password("newpassword456", user_credentials[u].password_hash)

\* ------------------------------------------------ login, statement by statement

UnknownEmail == "nobody@example.com"
LoginEmails == Emails \cup {UnknownEmail, "not-an-email"}
LoginPasswords == Passwords \cup {""}

\* LoginRequest: email format, password of one character or more
ValidLoginRequest(email, password) == ValidEmail(email) /\ Len(password) >= 1

\* an unknown address answered with NotFound
LoginError_NotFound(cause) ==
    CASE cause = "unknown_email" -> [kind |-> "NotFound", message |-> "Resource not found"]
      [] cause = "no_credentials" -> [kind |-> "Unauthorized", message |-> "Invalid credentials"]
      [] cause = "wrong_password" -> [kind |-> "Unauthorized", message |-> "Invalid credentials"]

\* the error login returns at each of its three refusals
LoginError(cause) ==
    CASE cause = "unknown_email" -> [kind |-> "Unauthorized", message |-> "Invalid credentials"]
      [] cause = "no_credentials" -> [kind |-> "Unauthorized", message |-> "Invalid credentials"]
      [] cause = "wrong_password" -> [kind |-> "Unauthorized", message |-> "Invalid credentials"]

\* login: validate, SELECT the user by email
LoginFindUser(p, email, password) ==
    /\ Accept(p)
    /\ LET found == {u \in DOMAIN users : users[u].email = email}
       IN IF ~ValidLoginRequest(email, password)
          THEN /\ ReplyMessage("login", NoUser, ValidationError, email)
               /\ UNCHANGED procs
          ELSE IF found = {}
          THEN /\ ReplyMessage("login", NoUser, LoginError("unknown_email"), email)
               /\ UNCHANGED procs
          ELSE /\ \E u \in found :
                    /\ loc' = [loc EXCEPT ![p] = [NoLoc EXCEPT !.uid = u]]
                    /\ req' = [req EXCEPT ![p] = [NoReq EXCEPT
                                 !.op = "login", !.uid = u, !.email = email,
                                 !.password = password]]
               /\ pc' = [pc EXCEPT ![p] = "li_creds"]
               /\ last' = last
    /\ UNCHANGED <<now, posts, ticks, store, nextToken, nextRowId, outbox, hist>>

\* login: SELECT the credential row of the user, verify_password
LoginGetCredentials(p) ==
    /\ pc[p] = "li_creds"
    /\ LET u == loc[p].uid
       IN IF u \notin DOMAIN user_credentials
          THEN /\ Return(p)
               /\ ReplyMessage("login", u, LoginError("no_credentials"), req[p].email)
          ELSE IF ~verify_password(req[p].password, user_credentials[u].password_hash)
          THEN /\ Return(p)
               /\ ReplyMessage("login", u, LoginError("wrong_password"), req[p].email)
          ELSE /\ pc' = [pc EXCEPT ![p] = "li_store"]
               /\ UNCHANGED <<req, loc, last>>
    /\ UNCHANGED <<now, posts, ticks, started, store, nextToken, nextRowId, outbox, hist>>

\* login: create_jwt_token, generate the refresh token, INSERT its row
LoginStore(p) ==
    /\ pc[p] = "li_store"
    /\ Return(p)
    /\ IF refresh_tokens_user_id_fkey(users, loc[p].uid)
       THEN /\ refresh_tokens' = refresh_tokens \cup
                  {NewRefreshRow(nextRowId, loc[p].uid, hash_refresh_token(nextToken), now)}
            /\ Reply("login", BogusToken, loc[p].uid, "OK", nextToken, FALSE)
            /\ nextToken' = nextToken + 1
            /\ nextRowId' = nextRowId + 1
            /\ issued' = issued \cup {nextToken}
            /\ access_tokens' = access_tokens \cup
                  {create_jwt_token(loc[p].uid, AccessTokenMinutes)}
       ELSE /\ ReplyMessage("login", loc[p].uid, DatabaseError, req[p].email)
            /\ UNCHANGED <<refresh_tokens, nextToken, nextRowId, issued, access_tokens>>
    /\ UNCHANGED <<now, posts, ticks, started, users, user_credentials, outbox,
                   redeemed, loggedOut, resetDone, verifyDone>>

\* a SELECT or the INSERT of login fails
LoginFail(p) ==
    /\ pc[p] \in {"li_creds", "li_store"}
    /\ Return(p)
    /\ ReplyMessage("login", loc[p].uid, DatabaseError, req[p].email)
    /\ UNCHANGED <<now, posts, ticks, started, store, nextToken, nextRowId, outbox, hist>>

\* ---------------------------------------------------- specification: login

NextLogin ==
    \/ \E p \in Procs, e \in LoginEmails, w \in LoginPasswords : LoginFindUser(p, e, w)
    \/ \E p \in Procs : LoginGetCredentials(p)
    \/ \E p \in Procs : LoginStore(p)
    \/ \E p \in Procs : LoginFail(p)
    \/ \E p \in Procs, u \in Users : DeleteUser(p, u)
    \/ \E p \in Procs, u \in Users, c \in Passwords, n \in Passwords :
          ChangePassword(p, u, c, n)
    \/ Tick(RefreshTTL)

SpecLogin == Init /\ [][NextLogin]_vars

\* C18: a login refused because no user has the email, because the user has
\* no credential row or because the password does not verify gets in all
\* three cases the Unauthorized error with the message "Invalid credentials"
\* and inserts no refresh-token row; no login is answered with NotFound.
C18_LoginUniformUnauthorized ==
    [][/\ (/\ started' = started + 1 /\ pc' = pc /\ last'.op = "login"
           /\ last'.kind # "Validation")
              => /\ \A u \in DOMAIN users : users[u].email # last'.email
                 /\ last'.kind = "Unauthorized"
                 /\ last'.message = "Invalid credentials"
                 /\ refresh_tokens' = refresh_tokens
       /\ \A p \in Procs :
            (/\ Steps(p, "login") /\ pc[p] = "li_creds"
             /\ last'.kind # "Database"
             /\ \/ loc[p].uid \notin DOMAIN user_credentials
                \/ ~verify_password(req[p].password,
                                    user_credentials[loc[p].uid].password_hash))
              => /\ pc'[p] = "idle"
                 /\ last'.kind = "Unauthorized"
                 /\ last'.message = "Invalid credentials"
                 /\ refresh_tokens' = refresh_tokens
       /\ \A p \in Procs :
            (Steps(p, "login") /\ pc'[p] = "idle") => last'.kind # "NotFound"
       /\ (started' = started + 1 /\ last'.op = "login") => last'.kind # "NotFound"]_vars

\* a login whose user was deleted after its first SELECT has been refused
C18_Witness ==
    /\ started = 2
    /\ last.op = "login" /\ last.kind = "Unauthorized"
    /\ last.uid # NoUser /\ last.uid \notin DOMAIN users

\* --------------------------------- specification: password-reset requests

NextResetRequest ==
    \/ \E p \in Procs, e \in LoginEmails : RequestResetFind(p, e)
    \/ \E p \in Procs : RequestResetStore(p)
    \/ \E p \in Procs : RequestResetAbort(p)
    \/ \E p \in Procs, d \in BOOLEAN : RequestResetSend(p, d)
    \/ \E p \in Procs, u \in Users : DeleteUser(p, u)
    \/ \E p \in Procs, t \in Presentable, w \in NewPasswords : ResetVerify(p, t, w)
    \/ \E p \in Procs : ResetUpdateCredential(p)
    \/ \E p \in Procs : ResetClearToken(p)
    \/ \E p \in Procs : ResetCommit(p)
    \/ \E p \in Procs : ResetAbort(p)
    \/ Tick(ResetTokenHours)

SpecResetRequest == Init /\ [][NextResetRequest]_vars

\* C19: a request_password_reset with a well-formed email returns the same
\* success response whether or not a user has the email: the request that
\* found a user and has stored its token returns that response also when the
\* delivery of the email fails.
C19_SameResponseForAnyEmail ==
    [][/\ \A p \in Procs :
            (Steps(p, "request_password_reset") /\ pc[p] = "rq_send")
                => last'.kind = ResetMailSent.kind /\ last'.message = ResetMailSent.message
       /\ (/\ started' = started + 1 /\ pc' = pc
           /\ last'.op = "request_password_reset" /\ ValidEmail(last'.email))
                => last'.kind = ResetMailSent.kind /\ last'.message = ResetMailSent.message]_vars

\* C20: a request_password_reset whose well-formed email matches no user row
\* returns at once with the success response; it stores no token and sends no
\* email, and every user row is left as it was.
C20_NoUserNoToken ==
    [][\A e \in LoginEmails :
          (/\ started' = started + 1
           /\ \/ pc' = pc /\ last'.op = "request_password_reset" /\ last'.email = e
              \/ \E p \in Procs : /\ pc'[p] # pc[p]
                                  /\ req'[p].op = "request_password_reset"
                                  /\ req'[p].email = e
           /\ ValidEmail(e)
           /\ \A u \in DOMAIN users : users[u].email # e)
              => /\ pc' = pc
                 /\ last'.kind = "OK"
                 /\ users' = users
                 /\ outbox' = outbox
                 /\ nextToken' = nextToken]_vars

\* a request for an address that no user has, after a token was stored for
\* another address
C20_Witness ==
    /\ last.op = "request_password_reset" /\ last.kind = "OK"
    /\ last.uid = NoUser
    /\ \A u \in DOMAIN users : users[u].email # last.email
    /\ \E u \in DOMAIN users : users[u].password_reset_token # NullToken

\* ------------------------------------------------- claims: change_password

\* a step in which change_password answers
ChangePasswordAnswers ==
    /\ started' = started + 1
    /\ pc' = pc
    /\ last'.op = "change_password"

\* C21 as stated: once change_password has succeeded, the stored credential
\* verifies the new password and no password that verified before the change
\* verifies after it
C21_OldPasswordNoLongerVerifies ==
    [][(ChangePasswordAnswers /\ last'.kind = "OK") =>
          LET u == last'.uid
          IN /\ verify_password(last'.new_password, user_credentials'[u].password_hash)
             /\ \A w \in Passwords :
                   verify_password(w, user_credentials[u].password_hash) =>
                      ~verify_password(w, user_credentials'[u].password_hash)]_vars

\* C21: once change_password has succeeded, the stored credential verifies the
\* new password and no other password, so the old password no longer verifies
\* when the new one differs from it; login then answers by the stored
\* credential: Unauthorized for a password it does not verify, and on to the
\* token step (which answers OK) for the password it verifies
C21_ChangedPasswordDecidesLogin ==
    [][/\ (ChangePasswordAnswers /\ last'.kind = "OK") =>
            LET u == last'.uid
            IN /\ verify_password(last'.password, user_credentials[u].password_hash)
               /\ verify_password(last'.new_password, user_credentials'[u].password_hash)
               /\ \A w \in Passwords \ {last'.new_password} :
                     ~verify_password(w, user_credentials'[u].password_hash)
       /\ \A p \in Procs :
            (/\ pc[p] = "li_creds"
             /\ pc'[p] # pc[p]
             /\ loc[p].uid \in DOMAIN user_credentials
             /\ last'.kind # DatabaseError.kind) =>
               IF verify_password(req[p].password,
                                  user_credentials[loc[p].uid].password_hash)
               THEN pc'[p] = "li_store"
               ELSE /\ pc'[p] = "idle"
                    /\ last'.op = "login"
                    /\ last'.kind = "Unauthorized"
       /\ \A p \in Procs :
            (/\ pc[p] = "li_store"
             /\ pc'[p] # pc[p]
             /\ last'.kind # DatabaseError.kind) =>
               /\ last'.op = "login"
               /\ last'.kind = "OK"
               /\ last'.uid = loc[p].uid]_vars

\* the password was changed to a different one and a login of that user with
\* a password the new credential does not verify has been refused
C21_Witness ==
    /\ last.op = "login"
    /\ last.kind = "Unauthorized"
    /\ last.uid \in DOMAIN user_credentials
    /\ verify_password("newpassword456", user_credentials[last.uid].password_hash)

\* C22: change_password given a current password the stored credential does
\* not verify answers Forbidden and leaves every credential row as it was
C22_WrongCurrentPasswordForbidden ==
    [][(/\ ChangePasswordAnswers
        /\ last'.uid \in DOMAIN user_credentials
        /\ Len(last'.password) >= 1
        /\ ValidNewPassword(last'.new_password)
        /\ ~verify_password(last'.password,
                            user_credentials[last'.uid].password_hash)) =>
          /\ last'.kind = "Forbidden"
          /\ StatusCode(last'.kind) = 403
          /\ user_credentials' = user_credentials
          /\ users' = users]_vars

\* change_password was refused for a wrong current password
C22_Witness ==
    /\ last.op = "change_password"
    /\ last.kind = "Forbidden"
    /\ last.uid \in DOMAIN user_credentials
    /\ ~verify_password(last.password, user_credentials[last.uid].password_hash)

\* ------------------------------------------------------ request authenticator

\* the routes behind auth_middleware that the requests of this model take
Routes == {"get_current_user", "create_thread", "create_comment"}

\* claims an attacker writes into a token signed with another key
ForgedClaims == {[sub |-> "u1", exp |-> now * 60 + AccessTokenMinutes]}

\* Authorization headers a client can send: none, or a scheme followed by a
\* token the client received, a forgery, or a string that is no token
Headers ==
    {NoHeader} \cup
    {[scheme |-> sc, token |-> t] :
        sc \in {"Basic", "Bearer"},
        t \in {[claims |-> c, signature |-> "signed"] : c \in access_tokens}
              \cup {[claims |-> c, signature |-> "forged"] : c \in ForgedClaims}
              \cup {Malformed}}

\* any header that carries a token is taken as a bearer token
strip_prefix_AnyScheme(header) == header.scheme # "none"

\* headers.get("Authorization") ... strip_prefix("Bearer ")
strip_prefix(header) == header.scheme = "Bearer"

\* a decoder that also asks for a refresh-token row of the subject that is
\* not revoked
verify_jwt_token_Session(token, t) ==
    IF token.signature = "malformed"
    THEN [ok |-> FALSE, error |-> "InvalidToken", claims |-> NoClaims]
    ELSE IF token.signature # "signed"
    THEN [ok |-> FALSE, error |-> "InvalidSignature", claims |-> NoClaims]
    ELSE IF token.claims.exp < t * 60
    THEN [ok |-> FALSE, error |-> "ExpiredSignature", claims |-> NoClaims]
    ELSE IF \A r \in refresh_tokens : r.user_id = token.claims.sub => r.revoked
    THEN [ok |-> FALSE, error |-> "InvalidToken", claims |-> NoClaims]
    ELSE [ok |-> TRUE, error |-> "", claims |-> token.claims]

\* verify_jwt_token: decode with Validation::default() at clock value t (in
\* hours): the structure, then the signature, then the exp claim; a leeway
\* of the validation is below the clock's granularity
verify_jwt_token(token, t) ==
    IF token.signature = "malformed"
    THEN [ok |-> FALSE, error |-> "InvalidToken", claims |-> NoClaims]
    ELSE IF token.signature # "signed"
    THEN [ok |-> FALSE, error |-> "InvalidSignature", claims |-> NoClaims]
    ELSE IF token.claims.exp < t * 60
    THEN [ok |-> FALSE, error |-> "ExpiredSignature", claims |-> NoClaims]
    ELSE [ok |-> TRUE, error |-> "", claims |-> token.claims]

\* a response that names the decoder's error
JwtError_Detailed(error) == [kind |-> "Jwt", message |-> error]

\* AppError::Jwt(_) and its response, whatever the decoder's error
JwtError(error) == [kind |-> "Jwt", message |-> "Invalid token"]

\* a missing user answered with NotFound
AuthError_NotFound(cause) ==
    CASE cause = "header" ->
            [kind |-> "Unauthorized", message |-> "Missing or invalid Authorization header"]
      [] cause = "user" -> [kind |-> "NotFound", message |-> "Resource not found"]

\* the two AppError::Unauthorized of auth_middleware
AuthError(cause) ==
    CASE cause = "header" ->
            [kind |-> "Unauthorized", message |-> "Missing or invalid Authorization header"]
      [] cause = "user" -> [kind |-> "Unauthorized", message |-> "User not found"]

\* the response of auth_middleware when it does not run the handler
ReplyAuth(header, uid, error) ==
    last' = [NoReply EXCEPT !.op = "authenticate", !.uid = uid, !.kind = error.kind,
                            !.message = error.message, !.header = header]

\* auth_middleware in front of a route: the header, the token, SELECT * FROM
\* users WHERE id = $1; the row and the claims go to the handler
Authenticate(p, header, route) ==
    /\ Accept(p)
    /\ LET v == verify_jwt_token(header.token, now)
       IN IF ~strip_prefix(header)
          THEN /\ ReplyAuth(header, NoUser, AuthError("header"))
               /\ UNCHANGED procs
          ELSE IF ~v.ok
          THEN /\ ReplyAuth(header, NoUser, JwtError(v.error))
               /\ UNCHANGED procs
          ELSE IF v.claims.sub \notin DOMAIN users
          THEN /\ ReplyAuth(header, v.claims.sub, AuthError("user"))
               /\ UNCHANGED procs
          ELSE /\ loc' = [loc EXCEPT ![p] = [NoLoc EXCEPT
                                 !.uid = v.claims.sub, !.user = users[v.claims.sub],
                                 !.access = v.claims]]
               /\ req' = [req EXCEPT ![p] = [NoReq EXCEPT
                                 !.op = route, !.uid = v.claims.sub,
                                 !.header = header]]
               /\ pc' = [pc EXCEPT ![p] = route]
               /\ last' = last
    /\ UNCHANGED <<now, posts, ticks, store, nextToken, nextRowId, outbox, hist>>

ConfigError == [kind |-> "Config", message |-> "Configuration error"]

\* Config::from_env fails, or the SELECT of auth_middleware fails for a request
\* whose token was accepted
AuthenticateFail(p, header) ==
    /\ Accept(p)
    /\ strip_prefix(header)
    /\ \E error \in IF verify_jwt_token(header.token, now).ok
                     THEN {ConfigError, DatabaseError}
                     ELSE {ConfigError} :
          ReplyAuth(header, NoUser, error)
    /\ UNCHANGED <<now, posts, ticks, store, nextToken, nextRowId, outbox, procs, hist>>

\* get_current_user: the row auth_middleware loaded, as a UserResponse
GetCurrentUser(p) ==
    /\ pc[p] = "get_current_user"
    /\ Return(p)
    /\ ReplyMessage("get_current_user", loc[p].uid, [kind |-> "OK", message |-> ""],
                    loc[p].user.email)
    /\ UNCHANGED <<now, posts, ticks, started, store, nextToken, nextRowId, outbox, hist>>

\* ------------------------------------------- specification: authenticated requests

NextAuth ==
    \/ \E p \in Procs, u \in Users : Login(p, SeedEmail[u], "password123")
    \/ \E p \in Procs, h \in Headers : Authenticate(p, h, "get_current_user")
    \/ \E p \in Procs, h \in Headers : AuthenticateFail(p, h)
    \/ \E p \in Procs : GetCurrentUser(p)
    \/ \E p \in Procs : DeleteUser(p, "u1")
    \/ \E p \in Procs, t \in issued : Logout(p, t)
    \/ \E p \in Procs, t \in issued : RefreshFind(p, t)
    \/ \E p \in Procs : RefreshGetUser(p)
    \/ \E p \in Procs : RefreshRevoke(p)
    \/ \E p \in Procs : RefreshInsert(p)
    \/ \E p \in Procs : RefreshCommit(p)
    \/ \E p \in Procs : RefreshAbort(p)
    \/ \E p \in Procs : ChangePassword(p, "u1", "password123", "newpassword456")
    \/ \E p \in Procs : RequestResetFind(p, SeedEmail["u1"])
    \/ \E p \in Procs : RequestResetStore(p)
    \/ \E p \in Procs : RequestResetAbort(p)
    \/ \E p \in Procs : RequestResetSend(p, TRUE)
    \/ \E p \in Procs, m \in outbox : ResetVerify(p, m.token, "newpassword456")
    \/ \E p \in Procs : ResetUpdateCredential(p)
    \/ \E p \in Procs : ResetClearToken(p)
    \/ \E p \in Procs : ResetCommit(p)
    \/ \E p \in Procs : ResetAbort(p)
    \/ Tick(1)

SpecAuth == Init /\ [][NextAuth]_vars

\* ------------------------------------------------ claims: the authenticator

\* a step in which auth_middleware answers a request itself
AuthAnswers ==
    /\ started' = started + 1
    /\ pc' = pc
    /\ last'.op = "authenticate"

\* a step in which auth_middleware hands the request of slot p to its handler
AuthAdmits(p) ==
    /\ pc[p] = "idle"
    /\ pc'[p] \in Routes

\* C23: a request without an Authorization header, or with one of another
\* scheme than Bearer, is answered Unauthorized for the header, whatever token
\* follows the scheme and whether its user exists, and no handler runs: every
\* request handed to a handler carried a Bearer header
C23_HeaderCheckedFirst ==
    [][/\ (AuthAnswers /\ last'.header.scheme # "Bearer") =>
            /\ last'.kind = "Unauthorized"
            /\ StatusCode(last'.kind) = 401
            /\ last'.message = "Missing or invalid Authorization header"
            /\ UNCHANGED <<store, posts>>
       /\ \A p \in Procs : AuthAdmits(p) => req'[p].header.scheme = "Bearer"]_vars

\* an unexpired token of an existing user, signed by the server, was refused
\* because it followed the scheme Basic
C23_Witness ==
    /\ last.op = "authenticate"
    /\ last.kind = "Unauthorized"
    /\ last.header.scheme = "Basic"
    /\ last.header.token.signature = "signed"
    /\ last.header.token.claims \in access_tokens
    /\ last.header.token.claims.exp >= now * 60
    /\ last.header.token.claims.sub \in DOMAIN users

\* C24: once the row of a user is deleted, a request that presents a signed,
\* unexpired access token of that user is answered Unauthorized by
\* auth_middleware, and no request is handed to a handler for a user whose
\* row is gone
C24_DeletedUserRejected ==
    [][/\ (/\ AuthAnswers
            /\ last'.kind \notin {ConfigError.kind, DatabaseError.kind}
            /\ last'.header.scheme = "Bearer"
            /\ last'.header.token.signature = "signed"
            /\ last'.header.token.claims.exp >= now * 60
            /\ last'.header.token.claims.sub \notin DOMAIN users) =>
               /\ last'.kind = "Unauthorized"
               /\ StatusCode(last'.kind) = 401
               /\ last'.uid = last'.header.token.claims.sub
       /\ \A p \in Procs :
            AuthAdmits(p) =>
               /\ req'[p].header.token.claims.sub \in DOMAIN users
               /\ loc'[p].uid = req'[p].header.token.claims.sub]_vars

\* a token issued to a user was refused, unexpired, after the user was deleted
C24_Witness ==
    /\ last.op = "authenticate"
    /\ last.kind = "Unauthorized"
    /\ last.header.scheme = "Bearer"
    /\ last.header.token.signature = "signed"
    /\ last.header.token.claims \in access_tokens
    /\ last.header.token.claims.exp >= now * 60
    /\ last.header.token.claims.sub \notin DOMAIN users

KnownVerificationTokens ==
    {users[u].verification_token : u \in DOMAIN users} \cup {m.token : m \in outbox}

\* C27: resend_verification answers BadRequest exactly for a user whose row
\* says email_verified, and then writes nothing; for an unverified user its
\* UPDATE replaces the verification token by one never stored or sent before
\* and the expiry by the clock plus the token lifetime, and changes nothing
\* else
C27_ResendOnlyForUnverified ==
    [][/\ (/\ started' = started + 1
            /\ pc' = pc
            /\ last'.op = "resend_verification"
            /\ last'.uid \in DOMAIN users) =>
               /\ users[last'.uid].email_verified
               /\ last'.kind = "BadRequest"
               /\ StatusCode(last'.kind) = 400
               /\ UNCHANGED <<users, outbox, nextToken>>
       /\ \A p \in Procs, u \in DOMAIN users :
            (/\ pc[p] = "idle"
             /\ pc'[p] = "rs_store"
             /\ loc'[p].uid = u) => ~users[u].email_verified
       /\ \A p \in Procs :
            (/\ pc[p] = "rs_store"
             /\ pc'[p] # pc[p]
             /\ loc[p].uid \in DOMAIN users) =>
               LET u == loc[p].uid
               IN /\ users'[u].verification_token \notin
                        KnownVerificationTokens \cup {NullToken}
                  /\ users'[u].verification_token_expires_at =
                        now + VerificationTokenHours
                  /\ users' = [users EXCEPT
                        ![u].verification_token = users'[u].verification_token,
                        ![u].verification_token_expires_at =
                            users'[u].verification_token_expires_at]]_vars

\* resend_verification was refused for a verified user, whose row carries no
\* token
C27_Witness ==
    /\ last.op = "resend_verification"
    /\ last.kind = "BadRequest"
    /\ last.uid \in DOMAIN users
    /\ users[last.uid].email_verified
    /\ users[last.uid].verification_token = NullToken

\* C28: update_email given the user's current address answers BadRequest and
\* writes nothing; when it succeeds, one step makes the new address, the
\* verification status false, the verification timestamp null, a token never
\* stored or sent before and its expiry visible together, in the row of that
\* user only
C28_UpdateEmailAtomic ==
    [][/\ (/\ started' = started + 1
            /\ pc' = pc
            /\ last'.op = "update_email"
            /\ last'.uid \in DOMAIN users
            /\ users[last'.uid].email = last'.email) =>
               /\ last'.kind = "BadRequest"
               /\ StatusCode(last'.kind) = 400
               /\ UNCHANGED <<users, outbox, nextToken>>
       /\ \A p \in Procs :
            (pc[p] = "ue_store" /\ pc'[p] # pc[p]) =>
               LET u == loc[p].uid
               IN IF last'.kind = "OK"
                  THEN /\ u \in DOMAIN users
                       /\ users'[u].email = req[p].email
                       /\ users'[u].email_verified = FALSE
                       /\ users'[u].email_verified_at = NullTime
                       /\ users'[u].verification_token \notin
                             KnownVerificationTokens \cup {NullToken}
                       /\ users'[u].verification_token_expires_at =
                             now + VerificationTokenHours
                       /\ \A v \in DOMAIN users \ {u} : users'[v] = users[v]
                       /\ DOMAIN users' = DOMAIN users
                  ELSE UNCHANGED <<users, outbox, nextToken>>]_vars

\* update_email has changed the address of a verified user: the row holds
\* the new address, unverified, with a token
C28_Witness ==
    /\ last.op = "update_email"
    /\ last.kind = "OK"
    /\ verifyDone # {}
    /\ last.uid \in DOMAIN users
    /\ users[last.uid].email = "new@example.com"
    /\ ~users[last.uid].email_verified
    /\ users[last.uid].email_verified_at = NullTime
    /\ users[last.uid].verification_token # NullToken

\* ------------------------------------------- create_thread, create_comment

ThreadTitles == {"", "a title"}
CommentContents == {"", "a comment"}

\* CreateThreadRequest: a title of 1 to 300 characters
ValidThread(title) == Len(title) >= 1 /\ Len(title) <= 300

\* CreateCommentRequest: a content of 1 to 5000 characters
ValidComment(content) == Len(content) >= 1 /\ Len(content) <= 5000

\* the handler posting for any authenticated user
PostingError_NoGate(valid, user) ==
    IF ~valid THEN ValidationError ELSE [kind |-> "none", message |-> ""]

\* payload.validate()?, then the email_verified flag of the row that
\* auth_middleware attached to the request
PostingError(valid, user) ==
    IF ~valid THEN ValidationError
    ELSE IF ~user.email_verified
    THEN [kind |-> "EmailVerificationRequired",
          message |-> "verification of the email address is required"]
    ELSE [kind |-> "none", message |-> ""]

\* threads.user_id and comments.user_id reference users.id
posts_user_id_fkey(rows, u) == u \in DOMAIN rows

\* create_thread: validate, check the flag, INSERT INTO threads
CreateThread(p, title) ==
    /\ pc[p] = "create_thread"
    /\ Return(p)
    /\ LET error == PostingError(ValidThread(title), loc[p].user)
       IN IF error.kind # "none"
          THEN /\ ReplyMessage("create_thread", loc[p].uid, error, NoEmail)
               /\ UNCHANGED <<threads, nextRowId>>
          ELSE IF ~posts_user_id_fkey(users, loc[p].uid)
          THEN /\ ReplyMessage("create_thread", loc[p].uid, DatabaseError, NoEmail)
               /\ UNCHANGED <<threads, nextRowId>>
          ELSE /\ threads' = threads \cup {[id |-> nextRowId, user_id |-> loc[p].uid]}
               /\ nextRowId' = nextRowId + 1
               /\ ReplyMessage("create_thread", loc[p].uid,
                               [kind |-> "Created", message |-> ""], NoEmail)
    /\ UNCHANGED <<now, comments, ticks, started, store, nextToken, outbox, hist>>

\* create_comment without a parent: validate, check the flag, SELECT EXISTS
\* the thread
CreateCommentCheck(p, content, thread_id) ==
    /\ pc[p] = "create_comment"
    /\ LET error == PostingError(ValidComment(content), loc[p].user)
       IN IF error.kind # "none"
          THEN /\ Return(p)
               /\ ReplyMessage("create_comment", loc[p].uid, error, NoEmail)
          ELSE IF \A t \in threads : t.id # thread_id
          THEN /\ Return(p)
               /\ ReplyMessage("create_comment", loc[p].uid,
                               [kind |-> "NotFound", message |-> "Resource not found"],
                               NoEmail)
          ELSE /\ loc' = [loc EXCEPT ![p].row = thread_id]
               /\ pc' = [pc EXCEPT ![p] = "cc_insert"]
               /\ UNCHANGED <<req, last>>
    /\ UNCHANGED <<now, posts, ticks, started, store, nextToken, nextRowId, outbox, hist>>

\* create_comment: INSERT INTO comments
CreateCommentInsert(p) ==
    /\ pc[p] = "cc_insert"
    /\ Return(p)
    /\ IF \/ ~posts_user_id_fkey(users, loc[p].uid)
          \/ \A t \in threads : t.id # loc[p].row
       THEN /\ ReplyMessage("create_comment", loc[p].uid, DatabaseError, NoEmail)
            /\ UNCHANGED <<comments, nextRowId>>
       ELSE /\ comments' = comments \cup
                  {[id |-> nextRowId, thread_id |-> loc[p].row, user_id |-> loc[p].uid]}
            /\ nextRowId' = nextRowId + 1
            /\ ReplyMessage("create_comment", loc[p].uid,
                            [kind |-> "Created", message |-> ""], NoEmail)
    /\ UNCHANGED <<now, threads, ticks, started, store, nextToken, outbox, hist>>

\* ------------------------------------------------- specification: posting

\* the store after the two seeded users have logged in and the first of them
\* has had a verification email resent and has verified its address
InitPost ==
    /\ now = 0
    /\ ticks = 0
    /\ started = 0
    /\ users = MarkVerified([u \in Users |-> SeedUserRow(u)], "u1", 0)
    /\ user_credentials = [u \in Users |-> hash_password("password123", 1)]
    /\ refresh_tokens = {NewRefreshRow(1, "u1", hash_refresh_token(1), 0),
                         NewRefreshRow(2, "u2", hash_refresh_token(2), 0)}
    /\ nextToken = 4
    /\ nextRowId = 3
    /\ outbox = {[kind |-> "verification", uid |-> "u1", to |-> SeedEmail["u1"],
                 token |-> 3]}
    /\ pc = [p \in Procs |-> "idle"]
    /\ req = [p \in Procs |-> NoReq]
    /\ loc = [p \in Procs |-> NoLoc]
    /\ last = NoReply
    /\ redeemed = {}
    /\ loggedOut = {}
    /\ resetDone = {}
    /\ verifyDone = {3}
    /\ issued = {1, 2}
    /\ access_tokens = {[sub |-> u, exp |-> AccessTokenMinutes] : u \in Users}
    /\ threads = {}
    /\ comments = {}

NextPost ==
    \/ \E p \in Procs, h \in Headers, r \in {"create_thread", "create_comment"} :
          Authenticate(p, h, r)
    \/ \E p \in Procs, title \in ThreadTitles : CreateThread(p, title)
    \/ \E p \in Procs, content \in CommentContents, t \in threads :
          CreateCommentCheck(p, content, t.id)
    \/ \E p \in Procs : CreateCommentCheck(p, "a comment", 0)
    \/ \E p \in Procs : CreateCommentInsert(p)
    \/ \E p \in Procs : RegisterCheck(p, "alice01", "new@example.com", "password123")
    \/ \E p \in Procs : RegisterCreate(p)
    \/ \E p \in Procs : RegisterToken(p, TRUE)
    \/ \E p \in Procs : RegisterRefresh(p)
    \/ \E p \in Procs : RegisterFail(p)
    \/ \E p \in Procs, m \in outbox : VerifyEmailFind(p, m.token)
    \/ \E p \in Procs : VerifyEmailUpdate(p)
    \/ \E p \in Procs : VerifyEmailFail(p)
    \/ \E p \in Procs, u \in Users : UpdateEmailCheck(p, u, "changed@example.com")
    \/ \E p \in Procs : UpdateEmailStore(p, TRUE)

SpecPost == InitPost /\ [][NextPost]_vars

\* ---------------------------------------------------------- claims: posting

\* slot p runs the step of create_thread or create_comment that checks the flag
PostingChecks(p) ==
    /\ pc[p] \in {"create_thread", "create_comment"}
    /\ pc'[p] # pc[p]

\* C29: a row enters threads or comments only in a step of a handler whose
\* authenticated user has email_verified set, and carries that user's id; a
\* handler whose user is unverified answers EmailVerificationRequired (after
\* the payload's validation) and inserts nothing; the flag is that of the
\* users row when auth_middleware admitted the request, register and
\* update_email leave it false, and only a successful verify_email sets it
C29_OnlyVerifiedUsersPost ==
    [][/\ (threads' # threads \/ comments' # comments) =>
            \E p \in Procs :
               /\ pc[p] \in {"create_thread", "cc_insert"}
               /\ pc'[p] = "idle"
               /\ loc[p].user.email_verified
               /\ last'.kind = "Created"
               /\ threads \subseteq threads'
               /\ comments \subseteq comments'
               /\ \A r \in (threads' \ threads) \cup (comments' \ comments) :
                     r.user_id = loc[p].uid
       /\ \A p \in Procs :
            (PostingChecks(p) /\ ~loc[p].user.email_verified) =>
               /\ pc'[p] = "idle"
               /\ last'.kind \in {"Validation", "EmailVerificationRequired"}
               /\ last'.kind = "EmailVerificationRequired" =>
                     StatusCode(last'.kind) = 403
               /\ UNCHANGED <<posts, nextRowId>>
       /\ \A p \in Procs :
            (pc[p] = "cc_insert" /\ pc'[p] # pc[p]) => loc[p].user.email_verified
       /\ \A p \in Procs :
            AuthAdmits(p) => loc'[p].user = users[loc'[p].uid]
       /\ \A u \in DOMAIN users' :
            (/\ users'[u].email_verified
             /\ u \in DOMAIN users => ~users[u].email_verified) =>
               /\ last'.op = "verify_email"
               /\ last'.kind = "OK"
               /\ last'.uid = u
       /\ \A p \in Procs :
            (/\ pc[p] = "ue_store"
             /\ pc'[p] # pc[p]
             /\ last'.kind = "OK") => ~users'[loc[p].uid].email_verified
       /\ \A u \in DOMAIN users' \ DOMAIN users : ~users'[u].email_verified]_vars

\* a verified user posted a thread, changed its email address and was then
\* refused a post
C29_Witness ==
    /\ last.op \in {"create_thread", "create_comment"}
    /\ last.kind = "EmailVerificationRequired"
    /\ last.uid = "u1"
    /\ \E t \in threads : t.user_id = "u1"
    /\ ~users["u1"].email_verified

\* ------------------------------------------------ claims: refresh-token rows

\* C30: every step leaves each refresh_tokens row in place with its id,
\* user_id, token_hash and expires_at, and with revoked unchanged or turned
\* from false to true, unless the step is a delete_user of the row's user,
\* which removes the row with the user
C30_RowsOnlyEverRevoked ==
    [][\A r \in refresh_tokens :
          \/ \E q \in refresh_tokens' :
                /\ q.id = r.id
                /\ q.user_id = r.user_id
                /\ q.token_hash = r.token_hash
                /\ q.expires_at = r.expires_at
                /\ r.revoked => q.revoked
                /\ \A o \in refresh_tokens' : o.id = r.id => o = q
          \/ /\ last'.op = "delete_user"
             /\ last'.kind = "OK"
             /\ last'.uid = r.user_id
             /\ r.user_id \in DOMAIN users
             /\ r.user_id \notin DOMAIN users'
             /\ \A o \in refresh_tokens' : o.id # r.id]_vars

\* a refresh token was revoked by logout or by refresh, a revoked row is in the
\* table, and the rows of a deleted user have gone with the user
C30_Witness ==
    /\ \E r \in refresh_tokens : r.revoked
    /\ "u1" \notin DOMAIN users
    /\ redeemed \cup loggedOut # {}

\* ------------------------- specification: verification and reset tokens

\* the two single-purpose token flows side by side for the seeded user u1:
\* the handlers that store a verification or a reset token on the user row and
\* the two handlers that consume one, with every email delivered
NextTokens ==
    \/ \E p \in Procs, m \in outbox : VerifyEmailFind(p, m.token)
    \/ \E p \in Procs : VerifyEmailUpdate(p)
    \/ \E p \in Procs : ResendFind(p, "u1")
    \/ \E p \in Procs : ResendStore(p)
    \/ \E p \in Procs : ResendSend(p, TRUE)
    \/ \E p \in Procs : UpdateEmailCheck(p, "u1", "changed@example.com")
    \/ \E p \in Procs : UpdateEmailStore(p, TRUE)
    \/ \E p \in Procs : RequestResetFind(p, SeedEmail["u1"])
    \/ \E p \in Procs : RequestResetStore(p)
    \/ \E p \in Procs : RequestResetSend(p, TRUE)
    \/ \E p \in Procs, m \in outbox : ResetVerify(p, m.token, "newpassword456")
    \/ \E p \in Procs : ResetUpdateCredential(p)
    \/ \E p \in Procs : ResetClearToken(p)
    \/ \E p \in Procs : ResetCommit(p)

SpecTokens == Init /\ [][NextTokens]_vars

\* ------------------------------- claims: verification and reset tokens

\* C31: a step of resend_verification, update_email or verify_email leaves
\* password_reset_token and its expiry of every user row as they were,
\* and a step of request_password_reset or reset_password leaves
\* verification_token, its expiry, email_verified and email_verified_at of
\* every user row as they were.
C31_TokenFieldsIndependent ==
    [][\A p \in Procs, u \in DOMAIN users \cap DOMAIN users' :
          /\ (\E op \in {"resend_verification", "update_email", "verify_email"} :
                 Steps(p, op))
                => /\ users'[u].password_reset_token = users[u].password_reset_token
                   /\ users'[u].password_reset_token_expires_at =
                         users[u].password_reset_token_expires_at
          /\ (\E op \in {"request_password_reset", "reset_password"} : Steps(p, op))
                => /\ users'[u].verification_token = users[u].verification_token
                   /\ users'[u].verification_token_expires_at =
                         users[u].verification_token_expires_at
                   /\ users'[u].email_verified = users[u].email_verified
                   /\ users'[u].email_verified_at = users[u].email_verified_at]_vars

\* a reset_password has cleared the reset token of a user whose verification
\* token is stored, and the verification token is still there
C31_Witness ==
    /\ last.op = "reset_password"
    /\ last.kind = "OK"
    /\ last.uid \in DOMAIN users
    /\ users[last.uid].password_reset_token = NullToken
    /\ users[last.uid].verification_token # NullToken

\* ------------------------------------------ specification: input validation

\* request bodies for the handlers that validate one: per handler one
\* well-formed body and bodies that break one rule each, among them bodies
\* that a handler which looked at the store first would answer differently
ValidationInputs ==
    [register |-> {<<"alice01", "new@example.com", "password123">>,
                   <<"al", "new@example.com", "password123">>,
                   <<"alice01", "not-an-email", "password123">>,
                   <<SeedName["u1"], SeedEmail["u1"], "short">>},
     login |-> {<<SeedEmail["u1"], "password123">>, <<UnknownEmail, "">>,
                <<"not-an-email", "password123">>},
     change_password |-> {<<"password123", "newpassword456">>,
                          <<"newpassword456", "short">>, <<"", "newpassword456">>},
     request_password_reset |-> {SeedEmail["u1"], "not-an-email"},
     reset_password |-> {"newpassword456", "short"}]

\* the five handlers that validate a request body
NextValidation ==
    \/ \E p \in Procs, i \in ValidationInputs.register : RegisterCheck(p, i[1], i[2], i[3])
    \/ \E p \in Procs : RegisterCreate(p)
    \/ \E p \in Procs : RegisterToken(p, TRUE)
    \/ \E p \in Procs : RegisterRefresh(p)
    \/ \E p \in Procs, i \in ValidationInputs.login : Login(p, i[1], i[2])
    \/ \E p \in Procs, i \in ValidationInputs.change_password :
          ChangePassword(p, "u1", i[1], i[2])
    \/ \E p \in Procs, e \in ValidationInputs.request_password_reset :
          RequestResetFind(p, e)
    \/ \E p \in Procs : RequestResetStore(p)
    \/ \E p \in Procs : RequestResetSend(p, TRUE)
    \/ \E p \in Procs, m \in outbox, w \in ValidationInputs.reset_password :
          ResetVerify(p, m.token, w)
    \/ \E p \in Procs : ResetUpdateCredential(p)
    \/ \E p \in Procs : ResetClearToken(p)
    \/ \E p \in Procs : ResetCommit(p)

SpecValidation == Init /\ [][NextValidation]_vars

\* ------------------------------------------------ claims: input validation

\* C32: a register, login, change_password, request_password_reset or
\* reset_password request whose input breaks a validation rule of its request
\* type (username shorter than 3, malformed email, password shorter than 8 or
\* longer than 100, empty login or current password) returns at once with a
\* Validation error whatever the store holds, and the step changes no table,
\* generates no token and sends no email.
C32_ValidationBeforePersistence ==
    [][\A p \in Procs :
          (\/ \E i \in ValidationInputs.register :
                 /\ Len(i[1]) < 3 \/ i[2] = "not-an-email" \/ Len(i[3]) < MinPasswordLen
                 /\ RegisterCheck(p, i[1], i[2], i[3])
           \/ \E i \in ValidationInputs.login :
                 /\ i[1] = "not-an-email" \/ Len(i[2]) < 1
                 /\ Login(p, i[1], i[2])
           \/ \E i \in ValidationInputs.change_password :
                 /\ Len(i[1]) < 1 \/ Len(i[2]) < MinPasswordLen \/ Len(i[2]) > 100
                 /\ ChangePassword(p, "u1", i[1], i[2])
           \/ \E e \in ValidationInputs.request_password_reset :
                 /\ e = "not-an-email"
                 /\ RequestResetFind(p, e)
           \/ \E m \in outbox, w \in ValidationInputs.reset_password :
                 /\ Len(w) < MinPasswordLen \/ Len(w) > 100
                 /\ ResetVerify(p, m.token, w))
          => /\ Rejected("Validation")
             /\ StatusCode(last'.kind) = 400
             /\ UNCHANGED <<store, nextToken, nextRowId, outbox>>]_vars

\* a change_password with a wrong current password and a short new one, and
\* a reset_password with a short password for a token that would be accepted,
\* have been answered with Validation
C32_Witness ==
    \/ /\ last.op = "change_password"
       /\ last.kind = "Validation"
       /\ last.uid \in DOMAIN user_credentials
       /\ ~verify_password(last.password, user_credentials[last.uid].password_hash)
    \/ /\ last.op = "reset_password"
       /\ last.kind = "Validation"
       /\ verify_reset_token(users, last.token, now) # {}

\* ------------------------------------------ claims: refresh handler variants

\* C33: in every store state and for every token a client can present, the
\* refresh_token of handlers/auth.rs and the refresh_token of
\* handlers/auth/refresh_token.rs select the same refresh_tokens row; the
\* statements after the SELECT are the same in both, so they then return the
\* same outcome and perform the same writes.
C33_RefreshVariantsEquivalent ==
    \A t \in Presentable :
        LegacyFindRefreshToken(refresh_tokens, hash_refresh_token(t), now) =
            FindRefreshToken(refresh_tokens, hash_refresh_token(t), now)

\* ----------------------------------------------- claims: logout and refresh

\* C34: once logout(T) has returned, a refresh(T) that returns success has
\* left no active refresh token behind: the token its response carries, the
\* descendant of T, is not redeemable.
C34_LogoutEndsSession ==
    (last.op = "refresh" /\ last.kind = "OK" /\ last.token \in loggedOut)
        => FindRefreshToken(refresh_tokens, hash_refresh_token(last.out), now) = {}

\* ------------------------------------ claims: verification and email change

\* C35: a verify_email(T) whose token T was mailed to an address the user no
\* longer has, because an update_email has committed since, neither marks the
\* user's new address verified nor clears the verification token stored for
\* the new address.
C35_VerifiesCurrentAddressOnly ==
    [][\A p \in Procs :
          (/\ Steps(p, "verify_email")
           /\ loc[p].uid \in DOMAIN users
           /\ \E m \in outbox : /\ m.token = req[p].token
                                /\ m.to # users[loc[p].uid].email)
          => /\ loc[p].uid \in DOMAIN users'
             /\ ~users'[loc[p].uid].email_verified
             /\ users'[loc[p].uid].verification_token =
                   users[loc[p].uid].verification_token]_vars

\* ------------------------------------------- claims: reset and new requests

\* C36: the commit of a successful reset_password(T) clears the stored reset
\* token only when the row still holds T: a token that a
\* request_password_reset has stored since T was checked is still stored, with
\* its expiry, after the commit.
C36_ResetClearsOnlyItsToken ==
    [][\A p \in Procs :
          (/\ Steps(p, "reset_password")
           /\ pc[p] = "rp_commit"
           /\ last'.kind = "OK"
           /\ loc[p].uid \in DOMAIN users
           /\ users[loc[p].uid].password_reset_token # NullToken
           /\ users[loc[p].uid].password_reset_token # req[p].token)
          => /\ loc[p].uid \in DOMAIN users'
             /\ users'[loc[p].uid].password_reset_token =
                   users[loc[p].uid].password_reset_token
             /\ users'[loc[p].uid].password_reset_token_expires_at =
                   users[loc[p].uid].password_reset_token_expires_at]_vars

\* ------------------------------------------- claims: one valid token per kind

C38_PasswordChangeKeepsSessions ==
    [][(ChangePasswordAnswers \/ \E p \in Procs : Steps(p, "reset_password"))
          => /\ refresh_tokens' = refresh_tokens
             /\ \A t \in issued :
                   FindRefreshToken(refresh_tokens', hash_refresh_token(t), now') =
                      FindRefreshToken(refresh_tokens, hash_refresh_token(t), now)]_vars

\* a change_password or a reset_password has replaced the password of a user
\* who holds a redeemable refresh token
C38_Witness ==
    /\ last.op \in {"change_password", "reset_password"}
    /\ last.kind = "OK"
    /\ verify_password(last.new_password, user_credentials[last.uid].password_hash)
    /\ \E t \in issued :
          \E r \in FindRefreshToken(refresh_tokens, hash_refresh_token(t), now) :
             r.user_id = last.uid

\* --------------------------------------- specification: emails with tokens

\* the four handlers that store a token on a user row and mail it, with the
\* failures of their transactions; every email is delivered
NextMail ==
    \/ \E p \in Procs : RegisterCheck(p, "alice01", "new@example.com", "password123")
    \/ \E p \in Procs : RegisterCreate(p)
    \/ \E p \in Procs : RegisterToken(p, TRUE)
    \/ \E p \in Procs : RegisterRefresh(p)
    \/ \E p \in Procs : RegisterFail(p)
    \/ \E p \in Procs : ResendFind(p, "u1")
    \/ \E p \in Procs : ResendStore(p)
    \/ \E p \in Procs : ResendSend(p, TRUE)
    \/ \E p \in Procs : UpdateEmailCheck(p, "u1", "changed@example.com")
    \/ \E p \in Procs : UpdateEmailStore(p, TRUE)
    \/ \E p \in Procs : RequestResetFind(p, SeedEmail["u1"])
    \/ \E p \in Procs : RequestResetStore(p)
    \/ \E p \in Procs : RequestResetAbort(p)
    \/ \E p \in Procs : RequestResetSend(p, TRUE)

SpecMail == Init /\ [][NextMail]_vars

\* ------------------------------------------------ claims: emails with tokens

\* C39: when register, update_email, resend_verification or
\* request_password_reset hands an email to the sender, the token in it has
\* been committed to the user's row: the row holds that token, or one of the
\* same kind stored by a later request; and a step in which one of the four
\* returns a database error, its transaction rolled back, sends no email and
\* leaves the generator of tokens where it was.
C39_MailAfterCommit ==
    [][/\ \A m \in outbox' \ outbox :
            /\ m.uid \in DOMAIN users'
            /\ m.kind = "verification" => users'[m.uid].verification_token >= m.token
            /\ m.kind = "password_reset" => users'[m.uid].password_reset_token >= m.token
       /\ (/\ last' # last
           /\ last'.kind = DatabaseError.kind
           /\ last'.op \in {"register", "update_email", "resend_verification",
                            "request_password_reset"})
          => outbox' = outbox /\ nextToken' = nextToken /\ users' = users]_vars

\* a verification email and a reset email have been sent, and a request's
\* transaction has been rolled back
C39_Witness ==
    /\ \E m \in outbox : m.kind = "verification" /\ users[m.uid].verification_token = m.token
    /\ \E m \in outbox :
          m.kind = "password_reset" /\ users[m.uid].password_reset_token = m.token
    /\ last.kind = DatabaseError.kind

\* -------------------------------------------- claims: errors and stored tokens

\* C40: when resend_verification or request_password_reset returns an error,
\* the user's row does not hold a token that the request has written: the
\* token fields are those from before the call, also when the error is a
\* failed delivery of the email.
C40_ErrorLeavesTokensAlone ==
    [][\A p \in Procs :
          (/\ Steps(p, "resend_verification") \/ Steps(p, "request_password_reset")
           /\ pc'[p] = "idle"
           /\ last'.kind # "OK"
           /\ loc[p].uid \in DOMAIN users')
          => /\ users'[loc[p].uid].verification_token # loc[p].token
             /\ users'[loc[p].uid].password_reset_token # loc[p].token]_vars

====
